---- MODULE Spec2Model ----
(***************************************************************************)
(* Client-side data-synchronisation layer of the recommender dashboard:    *)
(*   - the upload page (frontend/app/recommendations/page.tsx): staged     *)
(*     files, the REAL (XMLHttpRequest) and MOCK transports, cancellation; *)
(*   - the CRUD pages (BehaviourPage, CatalogPage), their EditableTable    *)
(*     and their add dialogs: optimistic update / delete / create.         *)
(* React state is one variable per useState; every asynchronous handler is *)
(* split at its awaits: one action up to the await, one per way the        *)
(* awaited promise settles.                                                *)
(***************************************************************************)
EXTENDS Integers, Sequences, FiniteSets, TLC

\* ------------------------------------------------------------------ bounds
\* upload transports alive at once (slots of the session table)
MaxSessions == 2
\* bytes of the multipart request body (event.total of the progress events)
TotalBytes == 3
\* progress values one REAL session delivers
MaxTicks == 2
\* rows of a CRUD page's list
MaxRows == 3
\* update, delete and refresh calls issued after the mount
MaxIssued == 2
\* files staged at once
MaxFiles == 2

\* ------------------------------------------------------- program constants
MAX_FILE_SIZE == 5 * 1024 * 1024

\* =========================================================================
\*                       UPLOAD PAGE (RecommendationsPage)
\* =========================================================================
VARIABLES
    files,                \* useState<FileWithMeta[]>
    isUploading,          \* useState(false)
    uploadProgress,       \* useState<UploadProgress>: [overall, perFile]
    recommendations,      \* useState<Recommendation[]>
    explanation,          \* useState<string>
    error,                \* useState<string>
    mockMode,             \* useState(false)
    abortController,      \* useState<AbortController|null>: 0 = null, else the
                          \* session whose controller it is
    showLargeFileWarning, \* useState(false)
    pendingLargeFiles,    \* useState<File[]>
    sessions,             \* the handleUpload calls that got past the early
                          \* return, by slot: the closure, the XMLHttpRequest
                          \* (or the mock loop), the AbortController's signal
                          \* and the outcomes delivered so far. A finished call
                          \* is inert (every callback of it needs its transport
                          \* unfinished), so the next call takes over its slot.
    lastEvent             \* the handler that ran last

uploadVars == <<files, isUploading, uploadProgress, recommendations, explanation,
                error, mockMode, abortController, showLargeFileWarning,
                pendingLargeFiles, sessions, lastEvent>>

\* the state of the dashboard's CRUD pages (BehaviourPage, CatalogPage)
VARIABLES
    page,          \* the dashboard page that is mounted: "behaviour" | "catalog"
    behaviour,     \* BehaviourPage: useState<BehaviorItem[]>(mockUserBehaviour)
    catalog,       \* CatalogPage: useState<CatalogItem[]>(mockCatalog)
    isRefreshing,  \* the mounted page's useState(false)
    editingRow,    \* EditableTable: useState<number|null>, -1 = null
    editedData,    \* EditableTable: useState<DataRow>({})
    open,          \* the mounted page's add dialog: useState(false)
    isAdding,      \* the add dialog: useState(false)
    formData,      \* the add dialog: useState({...})
    calls,         \* the remote calls in flight, each with the closure of the
                   \* handler that awaits it
    issued,        \* how many update, delete and refresh calls were sent so far
    toast,         \* the toast shown last
    searchQuery,   \* EditableTable: useState("")
    unhandled      \* the handler whose promise was rejected with nothing to
                   \* catch it (an unhandledrejection event), "none" if none was

\* the mounted page's UploadDialog and the page's handleUpload
VARIABLES
    uploadOpen,         \* UploadDialog: useState(false), open
    catalogFile,        \* UploadDialog: useState<File | null>(null)
    behaviourFile,      \* UploadDialog: useState<File | null>(null)
    dialogIsUploading,  \* UploadDialog: useState(false), isUploading
    dialogError,        \* UploadDialog: useState<string>(""), error
    pageIsLoading,      \* the mounted page's useState(false), isLoading
    upload              \* the page's handleUpload call the dialog awaits: its
                        \* arguments, the call it is suspended at and what it
                        \* has issued and seen so far

uploadDialogVars == <<uploadOpen, catalogFile, behaviourFile, dialogIsUploading,
                      dialogError, pageIsLoading, upload>>

crudVars == <<page, behaviour, catalog, isRefreshing, editingRow, editedData, open,
              isAdding, formData, calls, issued, toast, searchQuery, unhandled,
              uploadDialogVars>>

\* the state of the dashboard's recommendations page
\* (frontend/app/dashboard/recommendations/page.tsx)
VARIABLES
    dashRecommendations,  \* useState<Recommendation[]>(mockRecommendations.recommendations)
    dashExplanation,      \* useState<string>(mockRecommendations.explanation || "...")
    userId,               \* useState<string>("U001")
    isGenerating,         \* useState(false)
    isLoading,            \* useState(false)
    dashCalls,            \* the calls in flight: "stored" (the mount effect's) and
                          \* "generate"
    dashToast             \* the toast shown last

dashVars == <<dashRecommendations, dashExplanation, userId, isGenerating, isLoading,
              dashCalls, dashToast>>

\* A staged file. The id is `${file.name}-${Date.now()}-${Math.random()}`:
\* the name and a disambiguator.
FileWithMeta(name, stamp, size) ==
    [id |-> <<name, stamp>>, name |-> name, size |-> size]

\* lib/mock-data's canned envelope (the module itself is not among the sources)
mockRecommendations == [recommendations |-> <<"M1", "M2">>, explanation |-> "mock explanation"]

\* { overall: 0, perFile: {} }
ZeroProgress == [overall |-> 0, perFile |-> <<>>]

\* the per-file map keyed by f.name where the code keys it by f.id
PerFileProgress_ByName(fs, percent) ==
    [id \in {fs[k].name : k \in 1..Len(fs)} |-> percent]

\* files.forEach((f) => { perFileProgress[f.id] = percent })
PerFileProgress(fs, percent) ==
    [id \in {fs[k].id : k \in 1..Len(fs)} |-> percent]

\* the percentage of the bytes still to send, where the code takes the bytes
\* sent
RoundPercent_Remaining(loaded, total) == (200 * (total - loaded) + total) \div (2 * total)

\* Math.round((loaded / total) * 100), loaded and total non-negative
RoundPercent(loaded, total) == (200 * loaded + total) \div (2 * total)

\* HTTP statuses a completed request can carry
Statuses == {200, 201, 404, 500}

\* `${status} ${statusText}`, the status line of a response
StatusLine(status) ==
    CASE status = 200 -> "200 OK"
      [] status = 201 -> "201 Created"
      [] status = 404 -> "404 Not Found"
      [] status = 500 -> "500 Internal Server Error"

\* xhr.responseText, with what JSON.parse makes of it. json = FALSE: JSON.parse
\* throws. A field JSON.parse leaves undefined is "" (or <<>>).
Body(json, text, recs, expl, message, err) ==
    [json |-> json, text |-> text, recommendations |-> recs, explanation |-> expl,
     message |-> message, error |-> err]

Bodies ==
    { Body(TRUE,  "{recs,expl}", <<"P1">>, "because", "", ""),
      Body(TRUE,  "{recs}", <<"P1", "P2">>, "", "", ""),
      Body(TRUE,  "{recs:[]}", <<>>, "because", "", ""),
      Body(TRUE,  "{message}", <<>>, "", "bad csv", ""),
      Body(TRUE,  "{error}", <<>>, "", "", "boom"),
      Body(TRUE,  "{}", <<>>, "", "", ""),
      Body(FALSE, "<html>", <<>>, "", "", ""),
      Body(FALSE, "", <<>>, "", "", "") }

\* x || y on strings
OrElse(x, y) == IF x # "" THEN x ELSE y

\* The closure of one handleUpload call with its transport.
\*   xhr:     "sent" after xhr.send, "done" once load, error or abort was
\*            dispatched; "none" for a mock session
\*   i:       the mock loop's counter
\*   loaded:  event.loaded of the last progress event
\*   aborted: controller.signal.aborted
\* and the session's history:
\*   ticks:     the overall values passed to setUploadProgress by its progress
\*              events, in order
\*   outcomes:  the terminal outcomes delivered, in order
\*   cancelled: handleCancelUpload ran while the session was in flight
NewSession(mode, fs) ==
    [mode |-> mode, files |-> fs, xhr |-> IF mode = "REAL" THEN "sent" ELSE "none",
     i |-> 0, loaded |-> 0, aborted |-> FALSE, ticks |-> <<>>, outcomes |-> <<>>,
     cancelled |-> FALSE]

\* a slot no call has used yet
NoSession == [NewSession("NONE", <<>>) EXCEPT !.i = 110]

Slots == 1..MaxSessions

\* the session's transport has not finished
InFlight(s) ==
    CASE s.mode = "REAL" -> s.xhr = "sent"
      [] s.mode = "MOCK" -> s.i <= 100
      [] OTHER -> FALSE

InFlightSessions == {sid \in Slots : InFlight(sessions[sid])}

\* the slot the next handleUpload call takes
NextSlot ==
    LET free == Slots \ InFlightSessions
    IN  CHOOSE k \in free : \A j \in free : k <= j

Deliver(sid, outcome) ==
    [sessions EXCEPT ![sid].outcomes = Append(@, outcome)]

\* canUpload without its !isUploading
canUpload_NoUploadingTest == Len(files) > 0

\* const canUpload = files.length > 0 && !isUploading
canUpload == Len(files) > 0 /\ ~isUploading

\* ---------------------------------------------------------------- handlers

\* setMockMode, from the Switch
ToggleMockMode ==
    /\ mockMode' = ~mockMode
    /\ lastEvent' = "toggleMock"
    /\ UNCHANGED <<files, isUploading, uploadProgress, recommendations, explanation,
                   error, abortController, showLargeFileWarning, pendingLargeFiles,
                   sessions,
                   crudVars, dashVars>>

\* handleUpload without its reset of the previous results
handleUpload_KeepsResults ==
    /\ InFlightSessions # Slots
    /\ Len(files) # 0
    /\ error' = ""
    /\ UNCHANGED <<recommendations, explanation>>
    /\ isUploading' = TRUE
    /\ uploadProgress' = ZeroProgress
    /\ IF mockMode
         THEN /\ sessions' = [sessions EXCEPT ![NextSlot] = NewSession("MOCK", files)]
              /\ UNCHANGED abortController
         ELSE /\ sessions' = [sessions EXCEPT ![NextSlot] = NewSession("REAL", files)]
              /\ abortController' = NextSlot
    /\ lastEvent' = "upload"
    /\ UNCHANGED <<files, mockMode, showLargeFileWarning, pendingLargeFiles,
                   crudVars, dashVars>>

\* handleUpload up to its first suspension: the mock branch up to the first
\* await of its loop, the real branch up to xhr.send.
handleUpload ==
    /\ InFlightSessions # Slots
    /\ Len(files) # 0
    /\ error' = ""
    /\ recommendations' = <<>>
    /\ explanation' = ""
    /\ isUploading' = TRUE
    /\ uploadProgress' = ZeroProgress
    /\ IF mockMode
         THEN /\ sessions' = [sessions EXCEPT ![NextSlot] = NewSession("MOCK", files)]
              /\ UNCHANGED abortController
         ELSE /\ sessions' = [sessions EXCEPT ![NextSlot] = NewSession("REAL", files)]
              /\ abortController' = NextSlot
    /\ lastEvent' = "upload"
    /\ UNCHANGED <<files, mockMode, showLargeFileWarning, pendingLargeFiles,
                   crudVars, dashVars>>

\* The "Upload & Analyze" button: disabled={!canUpload}
ClickUpload ==
    /\ canUpload
    /\ handleUpload

\* the mock loop stepping by 20 (i += 20)
MockTick_StepTwenty(sid) ==
    LET s == sessions[sid] IN
    /\ s.mode = "MOCK"
    /\ s.i <= 100
    /\ uploadProgress' = [overall |-> s.i, perFile |-> PerFileProgress(s.files, s.i)]
    /\ IF s.i + 20 <= 100
         THEN /\ sessions' = [sessions EXCEPT ![sid].i = @ + 20,
                                               ![sid].ticks = Append(@, s.i)]
              /\ UNCHANGED <<recommendations, explanation, isUploading>>
         ELSE /\ recommendations' = mockRecommendations.recommendations
              /\ explanation' = OrElse(mockRecommendations.explanation, "")
              /\ isUploading' = FALSE
              /\ sessions' = [Deliver(sid, "Success") EXCEPT ![sid].i = 110,
                                                              ![sid].ticks = Append(@, s.i)]
    /\ lastEvent' = "mockTick"
    /\ UNCHANGED <<files, error, mockMode, abortController, showLargeFileWarning,
                   pendingLargeFiles,
                   crudVars, dashVars>>

\* One turn of the mock loop after its timer fired. The turn for i = 100 runs on
\* through the loop exit to the canned result without another await.
MockTick(sid) ==
    LET s == sessions[sid] IN
    /\ s.mode = "MOCK"
    /\ s.i <= 100
    /\ uploadProgress' = [overall |-> s.i, perFile |-> PerFileProgress(s.files, s.i)]
    /\ IF s.i + 10 <= 100
         THEN /\ sessions' = [sessions EXCEPT ![sid].i = @ + 10,
                                               ![sid].ticks = Append(@, s.i)]
              /\ UNCHANGED <<recommendations, explanation, isUploading>>
         ELSE /\ recommendations' = mockRecommendations.recommendations
              /\ explanation' = OrElse(mockRecommendations.explanation, "")
              /\ isUploading' = FALSE
              /\ sessions' = [Deliver(sid, "Success") EXCEPT ![sid].i = @ + 10,
                                                              ![sid].ticks = Append(@, s.i)]
    /\ lastEvent' = "mockTick"
    /\ UNCHANGED <<files, error, mockMode, abortController, showLargeFileWarning,
                   pendingLargeFiles,
                   crudVars, dashVars>>

\* xhr.upload.onprogress for an event with the given loaded and total; most
\* bounds the number of events a request reports
onprogress(sid, lengthComputable, loaded, total, most) ==
    LET s == sessions[sid] IN
    /\ s.mode = "REAL"
    /\ s.xhr = "sent"
    /\ loaded >= s.loaded
    /\ Len(s.ticks) < most
    /\ IF lengthComputable
         THEN LET percent == RoundPercent(loaded, total) IN
              /\ uploadProgress' = [overall |-> percent,
                                    perFile |-> PerFileProgress(s.files, percent)]
              /\ sessions' = [sessions EXCEPT ![sid].loaded = loaded,
                                              ![sid].ticks = Append(@, percent)]
         ELSE /\ UNCHANGED uploadProgress
              /\ sessions' = [sessions EXCEPT ![sid].loaded = loaded]
    /\ lastEvent' = "progress"
    /\ UNCHANGED <<files, isUploading, recommendations, explanation, error, mockMode,
                   abortController, showLargeFileWarning, pendingLargeFiles,
                   crudVars, dashVars>>

\* xhr.upload.onprogress for a body of TotalBytes
XhrProgress(sid, lengthComputable, loaded) ==
    onprogress(sid, lengthComputable, loaded, TotalBytes, MaxTicks)

\* the outcome xhr.onload delivers for a response
LoadOutcome(status, body) ==
    IF status = 200 /\ body.json /\ Len(body.recommendations) > 0
      THEN "Success" ELSE "ServerError"

\* xhr.onload storing the recommendations without the explanation
XhrLoad_DropsExplanation(sid, status, body) ==
    LET s == sessions[sid] IN
    /\ s.mode = "REAL"
    /\ s.xhr = "sent"
    /\ isUploading' = FALSE
    /\ abortController' = 0
    /\ IF status = 200
         THEN IF body.json
                THEN IF Len(body.recommendations) > 0
                       THEN /\ recommendations' = body.recommendations
                            /\ UNCHANGED <<explanation, error>>
                       ELSE /\ error' = "No recommendations found for uploaded data."
                            /\ UNCHANGED <<recommendations, explanation>>
                ELSE /\ error' = "Unexpected server response."
                     /\ UNCHANGED <<recommendations, explanation>>
         ELSE /\ IF body.json
                   THEN error' = OrElse(body.message,
                                        OrElse(body.error, "Server error occurred."))
                   ELSE error' = OrElse(body.text, "Server error occurred.")
              /\ UNCHANGED <<recommendations, explanation>>
    /\ sessions' = [Deliver(sid, LoadOutcome(status, body)) EXCEPT ![sid].xhr = "done"]
    /\ lastEvent' = "load"
    /\ UNCHANGED <<files, uploadProgress, mockMode, showLargeFileWarning,
                   pendingLargeFiles,
                   crudVars, dashVars>>

\* xhr.onload
XhrLoad(sid, status, body) ==
    LET s == sessions[sid] IN
    /\ s.mode = "REAL"
    /\ s.xhr = "sent"
    /\ isUploading' = FALSE
    /\ abortController' = 0
    /\ IF status = 200
         THEN IF body.json
                THEN IF Len(body.recommendations) > 0
                       THEN /\ recommendations' = body.recommendations
                            /\ explanation' = OrElse(body.explanation, "")
                            /\ UNCHANGED error
                       ELSE /\ error' = "No recommendations found for uploaded data."
                            /\ UNCHANGED <<recommendations, explanation>>
                ELSE /\ error' = "Unexpected server response."
                     /\ UNCHANGED <<recommendations, explanation>>
         ELSE /\ IF body.json
                   THEN error' = OrElse(body.message,
                                        OrElse(body.error, "Server error occurred."))
                   ELSE error' = OrElse(body.text, "Server error occurred.")
              /\ UNCHANGED <<recommendations, explanation>>
    /\ sessions' = [Deliver(sid, LoadOutcome(status, body)) EXCEPT ![sid].xhr = "done"]
    /\ lastEvent' = "load"
    /\ UNCHANGED <<files, uploadProgress, mockMode, showLargeFileWarning,
                   pendingLargeFiles,
                   crudVars, dashVars>>

\* xhr.onerror leaving the abort controller in place
XhrError_KeepsController(sid) ==
    LET s == sessions[sid] IN
    /\ s.mode = "REAL"
    /\ s.xhr = "sent"
    /\ isUploading' = FALSE
    /\ UNCHANGED abortController
    /\ error' = "Network error. Please check your connection."
    /\ sessions' = [Deliver(sid, "NetworkError") EXCEPT ![sid].xhr = "done"]
    /\ lastEvent' = "error"
    /\ UNCHANGED <<files, uploadProgress, recommendations, explanation, mockMode,
                   showLargeFileWarning, pendingLargeFiles,
                   crudVars, dashVars>>

\* xhr.onerror
XhrError(sid) ==
    LET s == sessions[sid] IN
    /\ s.mode = "REAL"
    /\ s.xhr = "sent"
    /\ isUploading' = FALSE
    /\ abortController' = 0
    /\ error' = "Network error. Please check your connection."
    /\ sessions' = [Deliver(sid, "NetworkError") EXCEPT ![sid].xhr = "done"]
    /\ lastEvent' = "error"
    /\ UNCHANGED <<files, uploadProgress, recommendations, explanation, mockMode,
                   showLargeFileWarning, pendingLargeFiles,
                   crudVars, dashVars>>

\* the sessions in flight marked as having seen a cancel request
MarkCancelled(ss) ==
    [sid \in Slots |->
        IF InFlight(sessions[sid]) THEN [ss[sid] EXCEPT !.cancelled = TRUE] ELSE ss[sid]]

\* controller.abort() with no "abort" listener registered on the signal: the
\* request is never told
ControllerAbort_NoListener(sid) ==
    /\ sessions' = MarkCancelled([sessions EXCEPT ![sid].aborted = TRUE])
    /\ UNCHANGED <<isUploading, abortController, uploadProgress>>

\* controller.abort() reaching the "abort" listener: xhr.abort() and, for a
\* request that was sent and is not done, xhr.onabort. A signal aborts once; an
\* XMLHttpRequest that is done dispatches nothing on abort().
ControllerAbort(sid) ==
    LET s == sessions[sid] IN
    IF ~s.aborted /\ s.xhr = "sent"
      THEN /\ isUploading' = FALSE
           /\ abortController' = 0
           /\ uploadProgress' = ZeroProgress
           /\ sessions' = MarkCancelled([Deliver(sid, "Aborted")
                                            EXCEPT ![sid].xhr = "done",
                                                   ![sid].aborted = TRUE])
      ELSE /\ sessions' = MarkCancelled([sessions EXCEPT ![sid].aborted = TRUE])
           /\ UNCHANGED <<isUploading, abortController, uploadProgress>>

\* handleCancelUpload resetting the page itself (and so reporting the abort)
\* instead of going through the controller: the request is left running
handleCancelUpload_ResetsItself ==
    /\ isUploading' = FALSE
    /\ abortController' = 0
    /\ uploadProgress' = ZeroProgress
    /\ sessions' = MarkCancelled(
            [sid \in Slots |->
                IF InFlight(sessions[sid])
                  THEN [sessions[sid] EXCEPT !.outcomes = Append(@, "Aborted")]
                  ELSE sessions[sid]])
    /\ lastEvent' = "cancel"
    /\ UNCHANGED <<files, recommendations, explanation, error, mockMode,
                   showLargeFileWarning, pendingLargeFiles, crudVars, dashVars>>

\* handleCancelUpload resetting the progress whether or not a request is left
\* to abort
handleCancelUpload_AlwaysResets ==
    /\ IF abortController # 0
         THEN /\ ControllerAbort(abortController)
         ELSE /\ sessions' = MarkCancelled(sessions)
              /\ uploadProgress' = ZeroProgress
              /\ UNCHANGED <<isUploading, abortController>>
    /\ lastEvent' = "cancel"
    /\ UNCHANGED <<files, recommendations, explanation, error, mockMode,
                   showLargeFileWarning, pendingLargeFiles, crudVars, dashVars>>

\* handleCancelUpload. The Cancel button is rendered while isUploading; the
\* handler is modelled callable in every state, as the contract's cancel(handle).
handleCancelUpload ==
    /\ IF abortController # 0
         THEN ControllerAbort(abortController)
         ELSE /\ sessions' = MarkCancelled(sessions)
              /\ UNCHANGED <<isUploading, abortController, uploadProgress>>
    /\ lastEvent' = "cancel"
    /\ UNCHANGED <<files, recommendations, explanation, error, mockMode,
                   showLargeFileWarning, pendingLargeFiles,
                   crudVars, dashVars>>

\* ------------------------------------------------------------ file stager

\* A File as the browser hands it over. Names are sequences of characters.
File(name, type, size) == [name |-> name, type |-> type, size |-> size]

\* String.prototype.toLowerCase on the letters that occur
LowerChar(ch) ==
    CASE ch = "A" -> "a" [] ch = "B" -> "b" [] ch = "C" -> "c" [] ch = "D" -> "d"
      [] ch = "S" -> "s" [] ch = "T" -> "t" [] ch = "V" -> "v" [] ch = "X" -> "x"
      [] OTHER -> ch

toLowerCase(str) == [k \in 1..Len(str) |-> LowerChar(str[k])]

\* String.prototype.endsWith
endsWith(str, suffix) ==
    /\ Len(str) >= Len(suffix)
    /\ SubSeq(str, Len(str) - Len(suffix) + 1, Len(str)) = suffix

\* isCSV testing the name without lower-casing it
isCSV_CaseSensitive(file) ==
    file.type = "text/csv" \/ endsWith(file.name, <<".", "c", "s", "v">>)

\* const isCSV = file.type === "text/csv" || file.name.toLowerCase().endsWith(".csv")
isCSV(file) ==
    file.type = "text/csv" \/ endsWith(toLowerCase(file.name), <<".", "c", "s", "v">>)

\* files a user selects or drops (drop bypasses the input's accept filter)
SmallByType == File(<<"a", ".", "c", "s", "v">>, "text/csv", 1024)
AtLimitByName == File(<<"B", ".", "C", "S", "V">>, "", MAX_FILE_SIZE)
NotCsv == File(<<"c", ".", "t", "x", "t">>, "text/plain", 10)
LargeByType == File(<<"d", ".", "d", "a", "t">>, "text/csv", MAX_FILE_SIZE + 1)
LargeByName == File(<<"e", ".", "c", "s", "v">>, "", 2 * MAX_FILE_SIZE)
LargeNotCsv == File(<<"c", "s", "v">>, "application/vnd.ms-excel", MAX_FILE_SIZE + 1)

\* the selections passed to handleFilesSelected
Selections ==
    { <<SmallByType>>, <<AtLimitByName>>, <<NotCsv>>, <<LargeByType>>,
      <<LargeByName, LargeByType>>, <<NotCsv, SmallByType>>,
      <<LargeByType, AtLimitByName, LargeNotCsv>>, <<SmallByType, SmallByType>> }

\* the ids of one handler run told apart by Date.now() alone, which has the
\* same value for every file of the run
FreshStamp_ClockOnly(fs, k) ==
    LET used == {fs[j].id[2] : j \in 1..Len(fs)}
        free == (1..(Len(fs) + 1)) \ used
    IN  CHOOSE m \in free : \A u \in free : m <= u

\* Date.now() and Math.random() of the ids: values no staged file carries, the
\* k-th file wrapped in one handler run gets the k-th smallest of them
FreshStamp(fs, k) ==
    LET used == {fs[j].id[2] : j \in 1..Len(fs)}
        free == (1..(Len(fs) + k)) \ used
    IN  CHOOSE m \in free : Cardinality({u \in free : u < m}) = k - 1

\* selected.map((file) => ({ file, id, name: file.name, size: file.size }))
Wrap(selected, prev) ==
    [k \in 1..Len(selected) |->
        FileWithMeta(selected[k].name, FreshStamp(prev, k), selected[k].size)]

\* the files staged at once, with the limit itself excluded
validFiles_BelowLimit(selectedFiles) ==
    SelectSeq(selectedFiles, LAMBDA f : isCSV(f) /\ f.size < MAX_FILE_SIZE)

\* the files of a selection pushed to validFiles (the else branch of
\* file.size > MAX_FILE_SIZE), before they are wrapped
validFiles(selectedFiles) ==
    SelectSeq(selectedFiles, LAMBDA f : isCSV(f) /\ ~(f.size > MAX_FILE_SIZE))

\* the files of a selection pushed to largeFiles
largeFiles(selectedFiles) ==
    SelectSeq(selectedFiles, LAMBDA f : isCSV(f) /\ f.size > MAX_FILE_SIZE)

\* let hasInvalidType: some file of the selection failed isCSV
hasInvalidType(selectedFiles) ==
    \E k \in 1..Len(selectedFiles) : ~isCSV(selectedFiles[k])

\* handleFilesSelected, reached from FileUploader's change and drop handlers
\* (input disabled and drop ignored while isUploading; an empty selection is
\* not passed on)
handleFilesSelected(selectedFiles) ==
    /\ ~isUploading
    /\ Len(files) + Len(validFiles(selectedFiles)) <= MaxFiles
    /\ error' = IF hasInvalidType(selectedFiles) THEN "Only CSV files are allowed" ELSE ""
    /\ IF Len(largeFiles(selectedFiles)) > 0
         THEN /\ pendingLargeFiles' = largeFiles(selectedFiles)
              /\ showLargeFileWarning' = TRUE
         ELSE UNCHANGED <<pendingLargeFiles, showLargeFileWarning>>
    /\ files' = files \o Wrap(validFiles(selectedFiles), files)
    /\ lastEvent' = "select"
    /\ UNCHANGED <<isUploading, uploadProgress, recommendations, explanation, mockMode,
                   abortController, sessions, crudVars, dashVars>>

\* handleConfirmLargeFiles staging only the first pending file
handleConfirmLargeFiles_FirstOnly ==
    /\ showLargeFileWarning
    /\ Len(files) + Len(pendingLargeFiles) <= MaxFiles
    /\ files' = files \o Wrap(SubSeq(pendingLargeFiles, 1, 1), files)
    /\ pendingLargeFiles' = <<>>
    /\ showLargeFileWarning' = FALSE
    /\ lastEvent' = "confirmLarge"
    /\ UNCHANGED <<isUploading, uploadProgress, recommendations, explanation, error,
                   mockMode, abortController, sessions, crudVars, dashVars>>

\* handleConfirmLargeFiles, the warning dialog's Continue
handleConfirmLargeFiles ==
    /\ showLargeFileWarning
    /\ Len(files) + Len(pendingLargeFiles) <= MaxFiles
    /\ files' = files \o Wrap(pendingLargeFiles, files)
    /\ pendingLargeFiles' = <<>>
    /\ showLargeFileWarning' = FALSE
    /\ lastEvent' = "confirmLarge"
    /\ UNCHANGED <<isUploading, uploadProgress, recommendations, explanation, error,
                   mockMode, abortController, sessions, crudVars, dashVars>>

\* handleCancelLargeFiles keeping the pending files
handleCancelLargeFiles_KeepsPending ==
    /\ showLargeFileWarning
    /\ showLargeFileWarning' = FALSE
    /\ lastEvent' = "cancelLarge"
    /\ UNCHANGED <<files, pendingLargeFiles, isUploading, uploadProgress, recommendations,
                   explanation, error, mockMode, abortController, sessions, crudVars, dashVars>>

\* handleCancelLargeFiles, the warning dialog's Cancel
handleCancelLargeFiles ==
    /\ showLargeFileWarning
    /\ pendingLargeFiles' = <<>>
    /\ showLargeFileWarning' = FALSE
    /\ lastEvent' = "cancelLarge"
    /\ UNCHANGED <<files, isUploading, uploadProgress, recommendations, explanation, error,
                   mockMode, abortController, sessions, crudVars, dashVars>>

\* the warning dialog closed without a button (onOpenChange={setShowLargeFileWarning})
DismissLargeFileWarning ==
    /\ showLargeFileWarning
    /\ showLargeFileWarning' = FALSE
    /\ lastEvent' = "dismissLarge"
    /\ UNCHANGED <<files, pendingLargeFiles, isUploading, uploadProgress, recommendations,
                   explanation, error, mockMode, abortController, sessions, crudVars, dashVars>>

\* removal by name where the code removes by id
RemoveFile_ByName(fs, id) == SelectSeq(fs, LAMBDA f : f.name # id[1])

\* prev.filter((f) => f.id !== id)
RemoveFile(fs, id) == SelectSeq(fs, LAMBDA f : f.id # id)

\* the ids handleRemoveFile is called with: those of the rows shown, and one
\* that no row has (a second click on a row already removed)
RemovableIds ==
    {files[k].id : k \in 1..Len(files)} \cup {<<<<"a", ".", "c", "s", "v">>, 0>>}

\* handleRemoveFile dropping the progress as well
handleRemoveFile_ResetsProgress(id) ==
    /\ ~isUploading
    /\ files' = RemoveFile(files, id)
    /\ uploadProgress' = ZeroProgress
    /\ lastEvent' = "remove"
    /\ UNCHANGED <<isUploading, recommendations, explanation, error, mockMode,
                   abortController, showLargeFileWarning, pendingLargeFiles, sessions,
                   crudVars, dashVars>>

\* handleRemoveFile, from a FileList row's button (disabled while isUploading)
handleRemoveFile(id) ==
    /\ ~isUploading
    /\ files' = RemoveFile(files, id)
    /\ lastEvent' = "remove"
    /\ UNCHANGED <<isUploading, uploadProgress, recommendations, explanation, error,
                   mockMode, abortController, showLargeFileWarning, pendingLargeFiles,
                   sessions, crudVars, dashVars>>

\* =========================================================================
\*            CRUD PAGES (BehaviourPage, CatalogPage) AND THEIR TABLE
\* =========================================================================
\* A row of the behaviour list. Of the editable columns (product_id, action,
\* timestamp) product_id stands for all three; an optional key that is absent
\* is "".
BehaviorItem(id, bid, uid, pid) ==
    [_id |-> id, behavior_id |-> bid, user_id |-> uid, product_id |-> pid]

\* A row of the catalog. name stands for the editable columns name, brand,
\* category, price, rating and features.
CatalogItem(pid, name) == [product_id |-> pid, name |-> name]

\* what an index without an element reads as (undefined / an empty slot)
Undefined(pg) ==
    IF pg = "behaviour" THEN BehaviorItem("", "", "", "") ELSE CatalogItem("", "")

\* lib/mock-data's initial lists (the module itself is not among the sources)
mockUserBehaviour ==
    << BehaviorItem("", "", "U1", "P1"), BehaviorItem("", "B2", "U2", "P2") >>
mockCatalog == << CatalogItem("P1", "n1"), CatalogItem("P2", "n1") >>

\* list[i], i counted from 0
At(pg, list, i) == IF i >= 0 /\ i < Len(list) THEN list[i + 1] ELSE Undefined(pg)

\* const updated = [...prev]; updated[i] = v: an index past the end lengthens
\* the array, the slots between stay empty
SetAt(pg, list, i, v) ==
    [k \in 1..(IF i + 1 > Len(list) THEN i + 1 ELSE Len(list)) |->
        IF k = i + 1 THEN v ELSE At(pg, list, k - 1)]

\* prev.filter((_, idx) => idx !== i): filter visits no empty slot
FilterOut(pg, list, i) ==
    LET F[k \in 0..Len(list)] ==
            IF k = 0 THEN <<>>
            ELSE IF k = i + 1 \/ list[k] = Undefined(pg) THEN F[k - 1]
            ELSE Append(F[k - 1], list[k])
    IN  F[Len(list)]

\* { ...prev[rowIndex], ...data } on behaviour rows: data's keys win, a key data
\* lacks keeps prev's value
BehaviourMerge(prev, data) ==
    [_id |-> OrElse(data._id, prev._id),
     behavior_id |-> OrElse(data.behavior_id, prev.behavior_id),
     user_id |-> data.user_id,
     product_id |-> data.product_id]

\* { ...prev[rowIndex], ...data } on catalog rows: data carries every key
CatalogMerge(prev, data) == [product_id |-> data.product_id, name |-> data.name]

\* the list of the mounted page
List == IF page = "behaviour" THEN behaviour ELSE catalog

\* what is typed into the table's search box: nothing, or "2"
Queries == {"", "2"}

\* String(value).toLowerCase().includes(query), on the values that occur
includes(value, query) ==
    IF query = "" THEN TRUE
    ELSE value \in {"i2", "B2", "U2", "P2", "n2"}

\* Object.values(row).some((value) => String(value).toLowerCase().includes(query))
Matches(pg, row, query) ==
    IF pg = "behaviour"
      THEN \/ includes(row._id, query) \/ includes(row.behavior_id, query)
           \/ includes(row.user_id, query) \/ includes(row.product_id, query)
      ELSE includes(row.product_id, query) \/ includes(row.name, query)

\* EditableTable's filteredData: data itself while the search box is empty,
\* else data.filter(...), which visits no empty slot
filteredData ==
    IF searchQuery = "" THEN List
    ELSE SelectSeq(List, LAMBDA row : row # Undefined(page) /\ Matches(page, row, searchQuery))

\* setSearchQuery, from the search box
setSearchQuery(query) ==
    /\ page \in {"behaviour", "catalog"}
    /\ query # searchQuery
    /\ searchQuery' = query
    /\ UNCHANGED <<page, behaviour, catalog, isRefreshing, editingRow, editedData, open,
                   isAdding, formData, calls, issued, toast, unhandled,
                   uploadDialogVars, uploadVars, dashVars>>

\* the table renders a row (with its buttons) for index i
Rendered(i) == i >= 0 /\ i < Len(filteredData) /\ filteredData[i + 1] # Undefined(page)

\* A remote call in flight and the closure awaiting it.
\*   op: "update" | "delete" | "add" | "fetch";  key: the id in the request URL
\*   rowIndex, data, item: the handler's arguments and its const item
Call(op, rowIndex, data, item, key, showToast) ==
    [op |-> op, rowIndex |-> rowIndex, data |-> data, item |-> item, key |-> key,
     showToast |-> showToast]

Mutations == {k \in 1..Len(calls) : calls[k].op \in {"update", "delete"}}

Without(seq, k) == [j \in 1..(Len(seq) - 1) |-> IF j < k THEN seq[j] ELSE seq[j + 1]]

Toast(kind, title) == [kind |-> kind, title |-> title]

tableVars == <<editingRow, editedData>>
dialogVars == <<open, isAdding, formData>>

\* ------------------------------------------------------------ EditableTable

\* startEditing(rowIndex, row), from a rendered row's pencil button
startEditing(i) ==
    /\ Rendered(i)
    /\ editingRow # i
    /\ editingRow' = i
    /\ editedData' = filteredData[i + 1]
    /\ UNCHANGED <<page, issued, behaviour, catalog, isRefreshing, dialogVars, calls, toast,
                   searchQuery, unhandled, uploadDialogVars, uploadVars, dashVars>>

\* the values the edit inputs offer
CellValues == IF page = "behaviour" THEN {"P9"} ELSE {"n9"}

\* handleCellChange(key, value), from an input of the row being edited
handleCellChange(value) ==
    /\ Rendered(editingRow)
    /\ editedData' = IF page = "behaviour"
                       THEN [editedData EXCEPT !.product_id = value]
                       ELSE [editedData EXCEPT !.name = value]
    /\ UNCHANGED <<page, issued, behaviour, catalog, isRefreshing, editingRow, dialogVars,
                   calls, toast,
                   searchQuery, unhandled, uploadDialogVars, uploadVars, dashVars>>

\* cancelEditing
cancelEditing ==
    /\ Rendered(editingRow)
    /\ editingRow' = -1
    /\ editedData' = Undefined(page)
    /\ UNCHANGED <<page, issued, behaviour, catalog, isRefreshing, dialogVars, calls, toast,
                   searchQuery, unhandled, uploadDialogVars, uploadVars, dashVars>>

\* ------------------------------------------------- BehaviourPage mutations

\* the setBehaviour updater a settled update or delete call runs (the same in
\* the try and in the catch)
BehaviourApply(prev, c) ==
    IF c.op = "update"
      THEN SetAt("behaviour", prev, c.rowIndex,
                 BehaviourMerge(At("behaviour", prev, c.rowIndex), c.data))
      ELSE FilterOut("behaviour", prev, c.rowIndex)

\* handleUpdate testing the id with its fallbacks (behaviorId) where the code
\* tests item._id
BehaviourHandleUpdate_TestsFallbackId(rowIndex, data) ==
    LET item == At("behaviour", behaviour, rowIndex)
        behaviorId == OrElse(item._id, OrElse(item.behavior_id, item.user_id))
    IN  IF item = Undefined("behaviour")
          THEN /\ unhandled' = "handleUpdate"
               /\ UNCHANGED <<toast, calls, issued>>
          ELSE IF behaviorId = ""
                THEN /\ toast' = Toast("error", "Cannot update: Missing _id field")
                     /\ UNCHANGED <<calls, issued, unhandled>>
                ELSE /\ issued < MaxIssued
                     /\ issued' = issued + 1
                     /\ calls' = Append(calls, Call("update", rowIndex, data, item,
                                                    behaviorId, FALSE))
                     /\ UNCHANGED <<toast, unhandled>>

\* BehaviourPage.handleUpdate(rowIndex, data) up to its await. The item is read
\* before the try: with behaviour[rowIndex] undefined, item._id throws a
\* TypeError that rejects the handler's promise, which the table does not await.
BehaviourHandleUpdate(rowIndex, data) ==
    LET item == At("behaviour", behaviour, rowIndex)
        behaviorId == OrElse(item._id, OrElse(item.behavior_id, item.user_id))
    IN  IF item = Undefined("behaviour")
          THEN /\ unhandled' = "handleUpdate"
               /\ UNCHANGED <<toast, calls, issued>>
          ELSE IF item._id = ""
                THEN /\ toast' = Toast("error", "Cannot update: Missing _id field")
                     /\ UNCHANGED <<calls, issued, unhandled>>
                ELSE /\ issued < MaxIssued
                     /\ issued' = issued + 1
                     /\ calls' = Append(calls, Call("update", rowIndex, data, item,
                                                    behaviorId, FALSE))
                     /\ UNCHANGED <<toast, unhandled>>

\* BehaviourPage.handleUpdate from its await on: updateBehavior resolved (ok) or
\* rejected
BehaviourUpdateDone(k, ok) ==
    LET c == calls[k] IN
    /\ page = "behaviour"
    /\ c.op = "update"
    /\ behaviour' = BehaviourApply(behaviour, c)
    /\ toast' = IF ok THEN Toast("success", "Behavior updated successfully")
                      ELSE Toast("error", "Failed to update behavior")
    /\ calls' = Without(calls, k)
    /\ UNCHANGED <<page, issued, catalog, isRefreshing, tableVars, dialogVars,
                   searchQuery, unhandled, uploadDialogVars, uploadVars, dashVars>>

\* BehaviourPage.handleDelete(rowIndex) up to its await (the item is read
\* before the try, as in BehaviourPage.handleUpdate)
BehaviourHandleDelete(rowIndex) ==
    LET item == At("behaviour", behaviour, rowIndex)
        behaviorId == OrElse(item._id, OrElse(item.behavior_id, item.user_id))
    IN  IF item = Undefined("behaviour")
          THEN /\ unhandled' = "handleDelete"
               /\ UNCHANGED <<toast, calls, issued>>
          ELSE IF item._id = ""
                THEN /\ toast' = Toast("error", "Cannot delete: Missing _id field")
                     /\ UNCHANGED <<calls, issued, unhandled>>
                ELSE /\ issued < MaxIssued
                     /\ issued' = issued + 1
                     /\ calls' = Append(calls, Call("delete", rowIndex, Undefined("behaviour"),
                                                    item, behaviorId, FALSE))
                     /\ UNCHANGED <<toast, unhandled>>

\* BehaviourPage.handleDelete from its await on
BehaviourDeleteDone(k, ok) ==
    LET c == calls[k] IN
    /\ page = "behaviour"
    /\ c.op = "delete"
    /\ behaviour' = BehaviourApply(behaviour, c)
    /\ toast' = IF ok THEN Toast("success", "Behavior deleted successfully")
                      ELSE Toast("error", "Failed to delete behavior")
    /\ calls' = Without(calls, k)
    /\ UNCHANGED <<page, issued, catalog, isRefreshing, tableVars, dialogVars,
                   searchQuery, unhandled, uploadDialogVars, uploadVars, dashVars>>

\* --------------------------------------------------- CatalogPage mutations

\* the setCatalog updater a settled update or delete call runs: the try's
\* (ok) or the catch's
CatalogApply(prev, c, ok) ==
    IF c.op = "update"
      THEN IF ok
             THEN SetAt("catalog", prev, c.rowIndex, [c.data EXCEPT !.product_id = c.key])
             ELSE SetAt("catalog", prev, c.rowIndex,
                        CatalogMerge(At("catalog", prev, c.rowIndex), c.data))
      ELSE FilterOut("catalog", prev, c.rowIndex)

\* CatalogPage.handleUpdate(rowIndex, data) up to its await (the item is read
\* before the try, as in BehaviourPage.handleUpdate)
CatalogHandleUpdate(rowIndex, data) ==
    LET item == At("catalog", catalog, rowIndex)
        productId == item.product_id
    IN  IF item = Undefined("catalog")
          THEN /\ unhandled' = "handleUpdate"
               /\ UNCHANGED <<toast, calls, issued>>
          ELSE /\ issued < MaxIssued
               /\ issued' = issued + 1
               /\ calls' = Append(calls, Call("update", rowIndex, data, item, productId, FALSE))
               /\ UNCHANGED <<toast, unhandled>>

\* CatalogPage.handleUpdate from its await on
CatalogUpdateDone(k, ok) ==
    LET c == calls[k] IN
    /\ page = "catalog"
    /\ c.op = "update"
    /\ catalog' = CatalogApply(catalog, c, ok)
    /\ toast' = IF ok THEN Toast("success", "Product updated successfully")
                      ELSE Toast("error", "Failed to update product")
    /\ calls' = Without(calls, k)
    /\ UNCHANGED <<page, issued, behaviour, isRefreshing, tableVars, dialogVars,
                   searchQuery, unhandled, uploadDialogVars, uploadVars, dashVars>>

\* CatalogPage.handleDelete(rowIndex) up to its await (the item is read
\* before the try, as in BehaviourPage.handleUpdate)
CatalogHandleDelete(rowIndex) ==
    LET item == At("catalog", catalog, rowIndex)
        productId == item.product_id
    IN  IF item = Undefined("catalog")
          THEN /\ unhandled' = "handleDelete"
               /\ UNCHANGED <<toast, calls, issued>>
          ELSE /\ issued < MaxIssued
               /\ issued' = issued + 1
               /\ calls' = Append(calls, Call("delete", rowIndex, Undefined("catalog"), item,
                                              productId, FALSE))
               /\ UNCHANGED <<toast, unhandled>>

\* CatalogPage.handleDelete from its await on
CatalogDeleteDone(k, ok) ==
    LET c == calls[k] IN
    /\ page = "catalog"
    /\ c.op = "delete"
    /\ catalog' = CatalogApply(catalog, c, ok)
    /\ toast' = IF ok THEN Toast("success", "Product deleted successfully")
                      ELSE Toast("error", "Failed to delete product")
    /\ calls' = Without(calls, k)
    /\ UNCHANGED <<page, issued, behaviour, isRefreshing, tableVars, dialogVars,
                   searchQuery, unhandled, uploadDialogVars, uploadVars, dashVars>>

\* ------------------------------------------- the table's calls into the page

\* onUpdate / onDelete of the mounted page
handleUpdate(rowIndex, data) ==
    IF page = "behaviour" THEN BehaviourHandleUpdate(rowIndex, data)
                          ELSE CatalogHandleUpdate(rowIndex, data)

handleDelete(rowIndex) ==
    IF page = "behaviour" THEN BehaviourHandleDelete(rowIndex)
                          ELSE CatalogHandleDelete(rowIndex)

\* saveEditing, from the check button of the row being edited
saveEditing ==
    /\ Rendered(editingRow)
    /\ handleUpdate(editingRow, editedData)
    /\ editingRow' = -1
    /\ editedData' = Undefined(page)
    /\ UNCHANGED <<page, behaviour, catalog, isRefreshing, dialogVars,
                   searchQuery, uploadDialogVars, uploadVars, dashVars>>

\* EditableTable.handleDelete(rowIndex), from the bin button of a rendered row
\* that is not being edited; confirm() answered yes
TableHandleDelete(i) ==
    /\ Rendered(i)
    /\ editingRow # i
    /\ handleDelete(i)
    /\ UNCHANGED <<page, behaviour, catalog, isRefreshing, tableVars, dialogVars,
                   searchQuery, uploadDialogVars, uploadVars, dashVars>>

\* ------------------------------------------------------------------ fetches

\* What getBehaviors / getProducts resolves with: a bare array, an object with
\* the list under the page's key (behaviors / products), an object with it
\* under data, or an object with none of these.
Response(shape, items) == [shape |-> shape, items |-> items]

ServerLists ==
    IF page = "behaviour"
      THEN { << BehaviorItem("i1", "B1", "U1", "P1"), BehaviorItem("i2", "", "U2", "P2"),
                BehaviorItem("", "B3", "U3", "P3") >> }
      ELSE { << CatalogItem("P1", "n1"), CatalogItem("P2", "n2"), CatalogItem("P3", "n3") >> }

Responses ==
    {Response(shape, items) : shape \in {"array", "keyed", "data"}, items \in ServerLists}
        \cup {Response("other", <<>>)}

\* fetchBehaviors(showToast) / fetchProducts(showToast) up to the await
fetchStart(showToast) ==
    /\ isRefreshing' = TRUE
    /\ calls' = Append(calls, Call("fetch", -1, Undefined(page), Undefined(page), "",
                                   showToast))
    /\ UNCHANGED <<page, behaviour, catalog, tableVars, dialogVars, toast,
                   searchQuery, unhandled, uploadDialogVars, uploadVars, dashVars>>

\* the Refresh button: disabled={isRefreshing}
ClickRefresh ==
    /\ ~isRefreshing
    /\ issued < MaxIssued
    /\ issued' = issued + 1
    /\ fetchStart(TRUE)

\* ------------------------------ UploadDialog and the pages' handleUpload

\* null, for a file state
NoFile == File(<<>>, "", 0)

\* the files the dialog's inputs hand over
DialogFiles == {SmallByType, NotCsv}

\* The handleUpload call of the mounted page (BehaviourPage / CatalogPage).
\*   at:  the call it awaits: "uploadProducts" | "uploadUserBehavior" |
\*        "fetch", or "done" once its promise is settled
\*   log: the calls it issued and how they ended, in order
UploadCall(cf, bf, at, log) ==
    [catalogFile |-> cf, behaviourFile |-> bf, at |-> at, log |-> log]

NoUpload == UploadCall(NoFile, NoFile, "done", <<>>)

\* the UploadDialog and the page's isLoading as constructed
UploadDialogIdle ==
    /\ uploadOpen = FALSE
    /\ catalogFile = NoFile
    /\ behaviourFile = NoFile
    /\ dialogIsUploading = FALSE
    /\ dialogError = ""
    /\ pageIsLoading = FALSE
    /\ upload = NoUpload

\* the dialog's setOpen: the trigger, the Cancel button (disabled while
\* isUploading) and onOpenChange (Escape, a click outside)
setUploadOpen(v) ==
    /\ page \in {"behaviour", "catalog"}
    /\ v # uploadOpen
    /\ uploadOpen' = v
    /\ UNCHANGED <<catalogFile, behaviourFile, dialogIsUploading, dialogError,
                   pageIsLoading, upload>>
    /\ UNCHANGED <<page, behaviour, catalog, isRefreshing, tableVars, dialogVars, calls,
                   issued, toast, searchQuery, unhandled, uploadVars, dashVars>>

\* handleCatalogChange, from the catalog input (rendered while no catalog file
\* is selected, disabled while isUploading)
handleCatalogChange(file) ==
    /\ uploadOpen /\ ~dialogIsUploading /\ catalogFile = NoFile
    /\ IF isCSV(file)
         THEN /\ catalogFile' = file
              /\ dialogError' = ""
         ELSE /\ dialogError' = "Please select a valid CSV file for product catalog"
              /\ UNCHANGED catalogFile
    /\ UNCHANGED <<uploadOpen, behaviourFile, dialogIsUploading, pageIsLoading, upload>>
    /\ UNCHANGED <<page, behaviour, catalog, isRefreshing, tableVars, dialogVars, calls,
                   issued, toast, searchQuery, unhandled, uploadVars, dashVars>>

\* handleBehaviourChange, from the behaviour input
handleBehaviourChange(file) ==
    /\ uploadOpen /\ ~dialogIsUploading /\ behaviourFile = NoFile
    /\ IF isCSV(file)
         THEN /\ behaviourFile' = file
              /\ dialogError' = ""
         ELSE /\ dialogError' = "Please select a valid CSV file for user behaviour"
              /\ UNCHANGED behaviourFile
    /\ UNCHANGED <<uploadOpen, catalogFile, dialogIsUploading, pageIsLoading, upload>>
    /\ UNCHANGED <<page, behaviour, catalog, isRefreshing, tableVars, dialogVars, calls,
                   issued, toast, searchQuery, unhandled, uploadVars, dashVars>>

\* handleRemoveCatalog, from the X of the selected catalog file (disabled
\* while isUploading)
handleRemoveCatalog ==
    /\ uploadOpen /\ ~dialogIsUploading /\ catalogFile # NoFile
    /\ catalogFile' = NoFile
    /\ UNCHANGED <<uploadOpen, behaviourFile, dialogIsUploading, dialogError,
                   pageIsLoading, upload>>
    /\ UNCHANGED <<page, behaviour, catalog, isRefreshing, tableVars, dialogVars, calls,
                   issued, toast, searchQuery, unhandled, uploadVars, dashVars>>

\* handleRemoveBehaviour
handleRemoveBehaviour ==
    /\ uploadOpen /\ ~dialogIsUploading /\ behaviourFile # NoFile
    /\ behaviourFile' = NoFile
    /\ UNCHANGED <<uploadOpen, catalogFile, dialogIsUploading, dialogError,
                   pageIsLoading, upload>>
    /\ UNCHANGED <<page, behaviour, catalog, isRefreshing, tableVars, dialogVars, calls,
                   issued, toast, searchQuery, unhandled, uploadVars, dashVars>>

\* UploadDialog.handleUpload, from the Upload button
\* (disabled={isUploading || (!catalogFile && !behaviourFile)}), with the
\* page's handleUpload it awaits, up to that handler's first await
DialogHandleUpload ==
    /\ uploadOpen /\ ~dialogIsUploading
    /\ catalogFile # NoFile \/ behaviourFile # NoFile
    /\ dialogIsUploading' = TRUE
    /\ dialogError' = ""
    /\ pageIsLoading' = TRUE
    /\ upload' = IF catalogFile # NoFile
                   THEN UploadCall(catalogFile, behaviourFile, "uploadProducts",
                                   <<"uploadProducts">>)
                   ELSE UploadCall(catalogFile, behaviourFile, "uploadUserBehavior",
                                   <<"uploadUserBehavior">>)
    /\ UNCHANGED <<uploadOpen, catalogFile, behaviourFile>>
    /\ UNCHANGED <<page, behaviour, catalog, isRefreshing, tableVars, dialogVars, calls,
                   issued, toast, searchQuery, unhandled, uploadVars, dashVars>>

\* The page's handleUpload returning (its finally) and UploadDialog.handleUpload
\* running on behind its await: the page's promise is fulfilled whether or not
\* an upload failed (the catch does not rethrow), so the dialog takes its
\* success path.
UploadReturns(entry) ==
    /\ pageIsLoading' = FALSE
    /\ catalogFile' = NoFile
    /\ behaviourFile' = NoFile
    /\ uploadOpen' = FALSE
    /\ dialogIsUploading' = FALSE
    /\ upload' = [upload EXCEPT !.at = "done", !.log = Append(@, entry)]
    /\ UNCHANGED dialogError

\* handleUpload going on to the upload of the behaviour file without looking
\* at how the upload of the catalog file ended
UploadDone_GoesOnAfterFailure(ok) ==
    /\ page \in {"behaviour", "catalog"}
    /\ upload.at \in {"uploadProducts", "uploadUserBehavior"}
    /\ toast' = IF ok THEN Toast("success", IF upload.at = "uploadProducts"
                                              THEN "Products uploaded successfully"
                                              ELSE "User behavior uploaded successfully")
                      ELSE Toast("error", "Upload failed")
    /\ IF upload.at = "uploadProducts" /\ upload.behaviourFile # NoFile
         THEN /\ upload' = [upload EXCEPT !.at = "uploadUserBehavior",
                                          !.log = @ \o <<IF ok THEN "ok" ELSE "failed",
                                                         "uploadUserBehavior">>]
              /\ UNCHANGED <<uploadOpen, catalogFile, behaviourFile, dialogIsUploading,
                             dialogError, pageIsLoading, isRefreshing, calls>>
         ELSE IF ok
           THEN /\ isRefreshing' = TRUE
                /\ calls' = Append(calls, Call("fetch", -1, Undefined(page), Undefined(page),
                                               "handleUpload", FALSE))
                /\ upload' = [upload EXCEPT !.at = "fetch", !.log = @ \o <<"ok", "fetch">>]
                /\ UNCHANGED <<uploadOpen, catalogFile, behaviourFile, dialogIsUploading,
                               dialogError, pageIsLoading>>
           ELSE /\ UploadReturns("failed")
                /\ UNCHANGED <<isRefreshing, calls>>
    /\ UNCHANGED <<page, behaviour, catalog, tableVars, dialogVars, issued, searchQuery,
                   unhandled, uploadVars, dashVars>>

\* handleUpload from an await of uploadProducts / uploadUserBehavior on: the
\* call resolved (ok) or rejected. After the last selected file it awaits
\* fetchBehaviors() / fetchProducts(), which runs up to its own await.
UploadDone(ok) ==
    /\ page \in {"behaviour", "catalog"}
    /\ upload.at \in {"uploadProducts", "uploadUserBehavior"}
    /\ IF ok
         THEN /\ toast' = Toast("success", IF upload.at = "uploadProducts"
                                             THEN "Products uploaded successfully"
                                             ELSE "User behavior uploaded successfully")
              /\ IF upload.at = "uploadProducts" /\ upload.behaviourFile # NoFile
                   THEN /\ upload' = [upload EXCEPT !.at = "uploadUserBehavior",
                                                    !.log = @ \o <<"ok", "uploadUserBehavior">>]
                        /\ UNCHANGED <<uploadOpen, catalogFile, behaviourFile,
                                       dialogIsUploading, dialogError, pageIsLoading,
                                       isRefreshing, calls>>
                   ELSE /\ isRefreshing' = TRUE
                        /\ calls' = Append(calls, Call("fetch", -1, Undefined(page),
                                                       Undefined(page), "handleUpload", FALSE))
                        /\ upload' = [upload EXCEPT !.at = "fetch",
                                                    !.log = @ \o <<"ok", "fetch">>]
                        /\ UNCHANGED <<uploadOpen, catalogFile, behaviourFile,
                                       dialogIsUploading, dialogError, pageIsLoading>>
         ELSE /\ toast' = Toast("error", "Upload failed")
              /\ UploadReturns("failed")
              /\ UNCHANGED <<isRefreshing, calls>>
    /\ UNCHANGED <<page, behaviour, catalog, tableVars, dialogVars, issued, searchQuery,
                   unhandled, uploadVars, dashVars>>

\* what runs behind a settled fetch: for the fetch handleUpload awaits (key
\* "handleUpload"; fetchBehaviors / fetchProducts catch their own failure, so
\* the await never throws), the rest of handleUpload and of the dialog's handler
AfterFetch(c) ==
    IF c.key = "handleUpload" THEN UploadReturns("fetched")
                              ELSE UNCHANGED uploadDialogVars

\* fetchBehaviors from its await on: getBehaviors resolved with r
BehaviourFetchOk(k, r) ==
    LET c == calls[k] IN
    /\ page = "behaviour"
    /\ c.op = "fetch"
    /\ behaviour' = IF r.shape \in {"array", "keyed", "data"} THEN r.items ELSE <<>>
    /\ toast' = IF c.showToast THEN Toast("success", "Behaviors refreshed successfully")
                               ELSE toast
    /\ isRefreshing' = FALSE
    /\ calls' = Without(calls, k)
    /\ AfterFetch(c)
    /\ UNCHANGED <<page, issued, catalog, tableVars, dialogVars,
                   searchQuery, unhandled, uploadVars, dashVars>>

\* fetchProducts from its await on: getProducts resolved with r
CatalogFetchOk(k, r) ==
    LET c == calls[k] IN
    /\ page = "catalog"
    /\ c.op = "fetch"
    /\ catalog' = IF r.shape \in {"array", "keyed", "data"} THEN r.items ELSE catalog
    /\ toast' = IF c.showToast THEN Toast("success", "Products refreshed successfully")
                               ELSE toast
    /\ isRefreshing' = FALSE
    /\ calls' = Without(calls, k)
    /\ AfterFetch(c)
    /\ UNCHANGED <<page, issued, behaviour, tableVars, dialogVars,
                   searchQuery, unhandled, uploadVars, dashVars>>

\* the catch toasting whether or not showToast is set
FetchFail_AlwaysToasts(k) ==
    LET c == calls[k] IN
    /\ c.op = "fetch"
    /\ toast' = Toast("error", IF page = "behaviour" THEN "Failed to fetch behaviors"
                                                      ELSE "Failed to fetch products")
    /\ isRefreshing' = FALSE
    /\ calls' = Without(calls, k)
    /\ AfterFetch(c)
    /\ UNCHANGED <<page, issued, behaviour, catalog, tableVars, dialogVars,
                   searchQuery, unhandled, uploadVars, dashVars>>

\* fetchBehaviors / fetchProducts from the await on: the call rejected
FetchFail(k) ==
    LET c == calls[k] IN
    /\ c.op = "fetch"
    /\ toast' = IF c.showToast
                  THEN Toast("error", IF page = "behaviour" THEN "Failed to fetch behaviors"
                                                            ELSE "Failed to fetch products")
                  ELSE toast
    /\ isRefreshing' = FALSE
    /\ calls' = Without(calls, k)
    /\ AfterFetch(c)
    /\ UNCHANGED <<page, issued, behaviour, catalog, tableVars, dialogVars,
                   searchQuery, unhandled, uploadVars, dashVars>>

\* ------------------------------------- AddBehaviorDialog / AddProductDialog

\* the dialog's initial (and reset) form
EmptyForm == Undefined(page)

\* the values typed into the form's fields
FormFields == IF page = "behaviour" THEN {"user_id", "product_id"} ELSE {"product_id", "name"}
FormValues == {"", "X3"}

\* onOpenChange={setOpen}: the trigger button, Escape, a click outside
setOpen(v) ==
    /\ open # v
    /\ open' = v
    /\ UNCHANGED <<page, issued, behaviour, catalog, isRefreshing, tableVars, isAdding, formData,
                   calls, toast,
                   searchQuery, unhandled, uploadDialogVars, uploadVars, dashVars>>

\* setFormData({ ...formData, [field]: value }), from an input of the open dialog
setFormData(field, value) ==
    /\ open
    /\ field \in FormFields
    /\ formData' = [formData EXCEPT ![field] = value]
    /\ UNCHANGED <<page, issued, behaviour, catalog, isRefreshing, tableVars, open, isAdding,
                   calls, toast,
                   searchQuery, unhandled, uploadDialogVars, uploadVars, dashVars>>

\* the required fields handleSubmit tests are all filled in
FormComplete == \A f \in FormFields : formData[f] # ""

\* handleSubmit, from the submit button (disabled={isAdding}) of the open
\* dialog, up to the await inside handleAddFromDialog
handleSubmit ==
    /\ open
    /\ ~isAdding
    /\ FormComplete
    /\ Len(List) < MaxRows
    /\ isAdding' = TRUE
    /\ calls' = Append(calls, Call("add", -1, formData, Undefined(page), "", FALSE))
    /\ UNCHANGED <<page, issued, behaviour, catalog, isRefreshing, tableVars, open, formData,
                   toast,
                   searchQuery, unhandled, uploadDialogVars, uploadVars, dashVars>>

\* what addBehavior / addProduct resolves with: the ids the server assigned, or
\* a body without them
AddResults ==
    IF page = "behaviour"
      THEN {BehaviorItem("", "", "", ""), BehaviorItem("i9", "B9", "", "")}
      ELSE {CatalogItem("", ""), CatalogItem("P9", "")}

\* handleAddFromDialog from its await on, addBehavior / addProduct resolved with
\* result, and handleSubmit after it: the form is reset and the dialog closed
AddOk(k, result) ==
    LET c == calls[k] IN
    /\ c.op = "add"
    /\ IF page = "behaviour"
         THEN /\ behaviour' = Append(behaviour,
                     [c.data EXCEPT !.behavior_id = result.behavior_id,
                                    !._id = result._id])
              /\ toast' = Toast("success", "Behavior added successfully")
              /\ UNCHANGED catalog
         ELSE /\ catalog' = Append(catalog,
                     [c.data EXCEPT !.product_id = OrElse(result.product_id,
                                                          c.data.product_id)])
              /\ toast' = Toast("success", "Product added successfully")
              /\ UNCHANGED behaviour
    /\ formData' = EmptyForm
    /\ open' = FALSE
    /\ isAdding' = FALSE
    /\ calls' = Without(calls, k)
    /\ UNCHANGED <<page, issued, isRefreshing, tableVars,
                   searchQuery, unhandled, uploadDialogVars, uploadVars, dashVars>>

\* a failed create treated as the failed update is: the row is added locally
\* all the same
AddFail_StillAddsLocally(k) ==
    LET c == calls[k] IN
    /\ c.op = "add"
    /\ IF page = "behaviour"
         THEN behaviour' = Append(behaviour, c.data) /\ UNCHANGED catalog
         ELSE catalog' = Append(catalog, c.data) /\ UNCHANGED behaviour
    /\ toast' = Toast("error", IF page = "behaviour" THEN "Failed to add behavior"
                                                     ELSE "Failed to add product")
    /\ isAdding' = FALSE
    /\ calls' = Without(calls, k)
    /\ UNCHANGED <<page, issued, isRefreshing, tableVars, open, formData, searchQuery, unhandled, uploadDialogVars, uploadVars, dashVars>>

\* handleAddFromDialog's catch (toast, re-throw) and handleSubmit's catch and
\* finally after it
AddFail(k) ==
    LET c == calls[k] IN
    /\ c.op = "add"
    /\ toast' = Toast("error", IF page = "behaviour" THEN "Failed to add behavior"
                                                     ELSE "Failed to add product")
    /\ isAdding' = FALSE
    /\ calls' = Without(calls, k)
    /\ UNCHANGED <<page, issued, behaviour, catalog, isRefreshing, tableVars, open, formData,
                   searchQuery, unhandled, uploadDialogVars, uploadVars, dashVars>>

\* =========================================================================
\*                              SPECIFICATIONS
\* =========================================================================
\* =========================================================================
\*                          API CLIENT (lib/api.ts)
\* =========================================================================

\* errorData.detail of a non-2xx response.
\*   kind: "absent"; "string", msg the string; "array", msg the msg of its
\*         first element ("" if that has none)
Detail(kind, msg) == [kind |-> kind, msg |-> msg]

\* A response with !response.ok. json = FALSE: response.json() rejects and
\* errorData is {}. message is "" when the body has none.
ErrorResponse(status, json, detail, message) ==
    [status |-> status, json |-> json, detail |-> detail, message |-> message]

ErrorResponses ==
    {ErrorResponse(status, TRUE, detail, message) :
        status \in {404, 500},
        detail \in {Detail("absent", ""), Detail("string", "bad id"),
                    Detail("array", "field required"), Detail("array", "")},
        message \in {"", "not found"}}
      \cup {ErrorResponse(status, FALSE, Detail("absent", ""), "") : status \in {404, 500}}

\* String(errorData.detail), what new Error(detail) makes its message
DetailText(detail) == IF detail.kind = "string" THEN detail.msg ELSE "[object Object]"

\* The message of the Error apiFetch throws for a non-2xx response, as the
\* pieces it is put together from:
\* errorData.detail?.[0]?.msg || errorData.detail || errorData.message ||
\* `API Error: ${response.status} ${response.statusText}`
apiErrorText(res) ==
    LET detail == IF res.json THEN res.detail ELSE Detail("absent", "")
        message == IF res.json THEN res.message ELSE ""
    IN  IF detail.kind = "array" /\ detail.msg # "" THEN <<detail.msg>>
        ELSE IF detail.kind # "absent" THEN <<DetailText(detail)>>
        ELSE IF message # "" THEN <<message>>
        ELSE <<"API Error: ", StatusLine(res.status)>>

\* a toast with its description
DescToast(kind, title, description) ==
    [kind |-> kind, title |-> title, description |-> description]

\* =========================================================================
\*        DASHBOARD RECOMMENDATIONS PAGE (dashboard/recommendations/page.tsx)
\* =========================================================================

\* the default of the explanation state when the mock envelope has none
DefaultExplanation == "These products are recommended based on ..."

\* What getAllStoredRecommendations / generateRecommendations resolves with.
\*   shape: "keyed" { recommendations: items, ... }, "array" items itself,
\*          "data" { data: items, ... }, "other" an object with no list
\*   explanation: the top-level explanation, "" when the response has none (a
\*          bare array has none)
RecsResponse(shape, items, expl) == [shape |-> shape, items |-> items, explanation |-> expl]

\* item lists a response carries
RecsLists == { <<"R1">>, <<"R2", "R3">>, <<>> }

RecsResponses ==
    {RecsResponse(shape, items, expl) :
        shape \in {"keyed", "data"}, items \in RecsLists, expl \in {"", "why"}}
      \cup {RecsResponse("array", items, "") : items \in RecsLists}
      \cup {RecsResponse("other", <<>>, expl) : expl \in {"", "why"}}

\* the list the page shows after a response: data.recommendations if it is an
\* array, else data if it is one, else the list as it was
RecsNormalize(prev, r) ==
    IF r.shape \in {"keyed", "array"} THEN r.items ELSE prev

\* the explanation the page shows after a response: data.explanation, looked
\* at only beside data.recommendations and only if truthy
ExplanationNormalize(prev, r) ==
    IF r.shape = "keyed" /\ r.explanation # "" THEN r.explanation ELSE prev

\* fetchStoredRecommendations (the mount effect) from its await on:
\* getAllStoredRecommendations resolved with r
StoredFetchOk(k, r) ==
    /\ page = "dashboard"
    /\ dashCalls[k] = "stored"
    /\ dashRecommendations' = RecsNormalize(dashRecommendations, r)
    /\ dashExplanation' = ExplanationNormalize(dashExplanation, r)
    /\ isLoading' = FALSE
    /\ dashCalls' = Without(dashCalls, k)
    /\ UNCHANGED <<userId, isGenerating, dashToast, uploadVars, crudVars>>

\* fetchStoredRecommendations from its await on: the call rejected
StoredFetchFail(k) ==
    /\ page = "dashboard"
    /\ dashCalls[k] = "stored"
    /\ isLoading' = FALSE
    /\ dashCalls' = Without(dashCalls, k)
    /\ UNCHANGED <<dashRecommendations, dashExplanation, userId, isGenerating, dashToast,
                   uploadVars, crudVars>>

\* the user ids typed into the input: one that trim() leaves non-empty and a
\* blank one
UserIds == {"U001", " "}

\* userId.trim()
trim(str) == IF str = " " THEN "" ELSE str

\* setUserId, from the input's onChange
setUserId(v) ==
    /\ page = "dashboard"
    /\ v # userId
    /\ userId' = v
    /\ UNCHANGED <<dashRecommendations, dashExplanation, isGenerating, isLoading,
                   dashCalls, dashToast, uploadVars, crudVars>>

\* handleGenerateRecommendations up to its await; the Generate button is
\* disabled={isGenerating || !userId.trim()}
handleGenerateRecommendations ==
    /\ page = "dashboard"
    /\ ~isGenerating
    /\ trim(userId) # ""
    /\ isGenerating' = TRUE
    /\ dashToast' = DescToast("info", "Generating recommendations...", <<>>)
    /\ dashCalls' = Append(dashCalls, "generate")
    /\ UNCHANGED <<dashRecommendations, dashExplanation, userId, isLoading,
                   uploadVars, crudVars>>

\* handleGenerateRecommendations from its await on: generateRecommendations
\* resolved with r
GenerateOk(k, r) ==
    /\ page = "dashboard"
    /\ dashCalls[k] = "generate"
    /\ dashRecommendations' = RecsNormalize(dashRecommendations, r)
    /\ dashExplanation' = ExplanationNormalize(dashExplanation, r)
    /\ dashToast' = IF r.shape \in {"keyed", "array"}
                      THEN DescToast("success", "Generated recommendations!", <<>>)
                      ELSE DescToast("success", "Recommendations generated successfully", <<>>)
    /\ isGenerating' = FALSE
    /\ dashCalls' = Without(dashCalls, k)
    /\ UNCHANGED <<userId, isLoading, uploadVars, crudVars>>

\* handleGenerateRecommendations from its await on: apiFetch threw for the
\* non-2xx response res; the toast's description is error.message
GenerateFail(k, res) ==
    /\ page = "dashboard"
    /\ dashCalls[k] = "generate"
    /\ dashToast' = DescToast("error", "Failed to generate recommendations",
                              apiErrorText(res))
    /\ isGenerating' = FALSE
    /\ dashCalls' = Without(dashCalls, k)
    /\ UNCHANGED <<dashRecommendations, dashExplanation, userId, isLoading,
                   uploadVars, crudVars>>

vars == <<uploadVars, crudVars, dashVars>>

\* staged-file lists the stager leaves behind (one small file; two files of
\* the same name)
StagedSamples ==
    { <<FileWithMeta(<<"a", ".", "c", "s", "v">>, 1, 1024)>>,
      <<FileWithMeta(<<"a", ".", "c", "s", "v">>, 1, 1024),
        FileWithMeta(<<"a", ".", "c", "s", "v">>, 2, MAX_FILE_SIZE)>> }

\* the upload page as constructed
UploadIdle ==
    /\ isUploading = FALSE
    /\ uploadProgress = ZeroProgress
    /\ recommendations = <<>>
    /\ explanation = ""
    /\ error = ""
    /\ mockMode = FALSE
    /\ abortController = 0
    /\ showLargeFileWarning = FALSE
    /\ pendingLargeFiles = <<>>
    /\ sessions = [sid \in Slots |-> NoSession]
    /\ lastEvent = "init"

\* a CRUD page as constructed, before its mount effect
CrudIdle ==
    /\ behaviour = mockUserBehaviour
    /\ catalog = mockCatalog
    /\ isRefreshing = FALSE
    /\ editingRow = -1
    /\ editedData = Undefined(page)
    /\ open = FALSE
    /\ isAdding = FALSE
    /\ formData = EmptyForm
    /\ calls = <<>>
    /\ issued = 0
    /\ toast = Toast("none", "")
    /\ searchQuery = ""
    /\ unhandled = "none"
    /\ UploadDialogIdle

\* the dashboard's recommendations page as constructed
DashIdle ==
    /\ dashRecommendations = mockRecommendations.recommendations
    /\ dashExplanation = OrElse(mockRecommendations.explanation, DefaultExplanation)
    /\ userId = "U001"
    /\ isGenerating = FALSE
    /\ isLoading = FALSE
    /\ dashCalls = <<>>
    /\ dashToast = DescToast("none", "", <<>>)

\* The upload page with files staged and no oversized file pending.
InitUpload ==
    /\ files \in StagedSamples
    /\ UploadIdle
    /\ page = "upload"
    /\ CrudIdle
    /\ DashIdle

NextUpload ==
    \/ ToggleMockMode
    \/ ClickUpload
    \/ handleCancelUpload
    \/ \E sid \in Slots : MockTick(sid)
    \/ \E sid \in Slots, lc \in BOOLEAN, loaded \in 0..TotalBytes :
          XhrProgress(sid, lc, loaded)
    \/ \E sid \in Slots, status \in Statuses, body \in Bodies :
          XhrLoad(sid, status, body)
    \/ \E sid \in Slots : XhrError(sid)

SpecUpload == InitUpload /\ [][NextUpload]_vars

\* The upload page as constructed: nothing staged yet.
InitStage ==
    /\ files = <<>>
    /\ UploadIdle
    /\ page = "upload"
    /\ CrudIdle
    /\ DashIdle

\* The file stager by itself, before any upload.
NextStage ==
    \/ \E selectedFiles \in Selections : handleFilesSelected(selectedFiles)
    \/ handleConfirmLargeFiles
    \/ handleCancelLargeFiles
    \/ DismissLargeFileWarning
    \/ \E id \in RemovableIds : handleRemoveFile(id)

SpecStage == InitStage /\ [][NextStage]_vars

\* The upload page with its file stager and its transports, for what the
\* stager does to the state of an upload. One selection is offered (a small
\* file, staged at once, with a large one, asking for confirmation); a request
\* reports the whole body in its progress events and ends with
\* recommendations or is cancelled. SpecStage has the stager in full,
\* SpecUpload the transports.
NextPage ==
    \/ handleFilesSelected(<<SmallByType, LargeByType>>)
    \/ handleConfirmLargeFiles
    \/ handleCancelLargeFiles
    \/ \E id \in RemovableIds : handleRemoveFile(id)
    \/ ToggleMockMode
    \/ ClickUpload
    \/ handleCancelUpload
    \/ \E sid \in Slots : MockTick(sid)
    \/ \E sid \in Slots : XhrProgress(sid, TRUE, TotalBytes)
    \/ \E sid \in Slots :
            XhrLoad(sid, 200, Body(TRUE, "{recs,expl}", <<"P1">>, "because", "", ""))

SpecPage == InitStage /\ [][NextPage]_vars

\* The upload page with requests that fail and the stager used between the
\* attempts: a request ends with a network error or with a 500 whose body is
\* empty; a CSV file or a file of another type is selected, a staged file is
\* removed.
NextRetry ==
    \/ \E selectedFiles \in {<<SmallByType>>, <<NotCsv>>} : handleFilesSelected(selectedFiles)
    \/ \E id \in RemovableIds : handleRemoveFile(id)
    \/ ClickUpload
    \/ handleCancelUpload
    \/ \E sid \in Slots : XhrProgress(sid, TRUE, TotalBytes)
    \/ \E sid \in Slots : XhrLoad(sid, 500, Body(FALSE, "", <<>>, "", "", ""))
    \/ \E sid \in Slots : XhrError(sid)

SpecRetry == InitUpload /\ [][NextRetry]_vars

\* The files, progress events and response of the end-to-end scenario: a.csv
\* of 1 KB and b.csv of 6 MB, four progress events of a 20-byte body, and a 200
\* whose envelope holds one recommendation (overall_score in hundredths).
ACsv == File(<<"a", ".", "c", "s", "v">>, "text/csv", 1024)
BCsv == File(<<"b", ".", "c", "s", "v">>, "text/csv", 6 * 1024 * 1024)
ScenarioEvents ==
    << [loaded |-> 0, total |-> 20], [loaded |-> 5, total |-> 20],
       [loaded |-> 12, total |-> 20], [loaded |-> 20, total |-> 20] >>
ScenarioBody ==
    Body(TRUE, "{recs,expl}", <<[product_id |-> "P1", overall_score |-> 82]>>,
         "bought together", "", "")

NextScenario ==
    \/ handleFilesSelected(<<ACsv, BCsv>>)
    \/ handleConfirmLargeFiles
    \/ handleCancelLargeFiles
    \/ ClickUpload
    \/ \E sid \in Slots, n \in 1..Len(ScenarioEvents) :
            onprogress(sid, TRUE, ScenarioEvents[n].loaded, ScenarioEvents[n].total,
                       Len(ScenarioEvents))
    \/ \E sid \in Slots : XhrLoad(sid, 200, ScenarioBody)

SpecScenario == InitStage /\ [][NextScenario]_vars

\* A CRUD page after its mount effect: the mock list shown, the first fetch
\* (showToast = false) in flight.
InitCrud ==
    /\ files = <<>>
    /\ UploadIdle
    /\ page \in {"behaviour", "catalog"}
    /\ behaviour = mockUserBehaviour
    /\ catalog = mockCatalog
    /\ isRefreshing = TRUE
    /\ editingRow = -1
    /\ editedData = Undefined(page)
    /\ open = FALSE
    /\ isAdding = FALSE
    /\ formData = EmptyForm
    /\ calls = << Call("fetch", -1, Undefined(page), Undefined(page), "", FALSE) >>
    /\ issued = 0
    /\ toast = Toast("none", "")
    /\ searchQuery = ""
    /\ unhandled = "none"
    /\ UploadDialogIdle
    /\ DashIdle

\* The mounted page's table, its update and delete calls, and its fetches.
NextCrud ==
    \/ \E i \in 0..(MaxRows - 1) : startEditing(i)
    \/ \E v \in CellValues : handleCellChange(v)
    \/ cancelEditing
    \/ saveEditing
    \/ \E i \in 0..(MaxRows - 1) : TableHandleDelete(i)
    \/ \E k \in 1..Len(calls), ok \in BOOLEAN : BehaviourUpdateDone(k, ok)
    \/ \E k \in 1..Len(calls), ok \in BOOLEAN : BehaviourDeleteDone(k, ok)
    \/ \E k \in 1..Len(calls), ok \in BOOLEAN : CatalogUpdateDone(k, ok)
    \/ \E k \in 1..Len(calls), ok \in BOOLEAN : CatalogDeleteDone(k, ok)
    \/ ClickRefresh
    \/ \E k \in 1..Len(calls), r \in Responses : BehaviourFetchOk(k, r)
    \/ \E k \in 1..Len(calls), r \in Responses : CatalogFetchOk(k, r)
    \/ \E k \in 1..Len(calls) : FetchFail(k)

SpecCrud == InitCrud /\ [][NextCrud]_vars

\* The same with the table's search box in use.
NextSearch ==
    \/ \E query \in Queries : setSearchQuery(query)
    \/ \E i \in 0..(MaxRows - 1) : startEditing(i)
    \/ \E v \in CellValues : handleCellChange(v)
    \/ cancelEditing
    \/ saveEditing
    \/ \E i \in 0..(MaxRows - 1) : TableHandleDelete(i)
    \/ \E k \in 1..Len(calls), ok \in BOOLEAN : BehaviourUpdateDone(k, ok)
    \/ \E k \in 1..Len(calls), ok \in BOOLEAN : BehaviourDeleteDone(k, ok)
    \/ \E k \in 1..Len(calls), ok \in BOOLEAN : CatalogUpdateDone(k, ok)
    \/ \E k \in 1..Len(calls), ok \in BOOLEAN : CatalogDeleteDone(k, ok)
    \/ ClickRefresh
    \/ \E k \in 1..Len(calls), r \in Responses : BehaviourFetchOk(k, r)
    \/ \E k \in 1..Len(calls), r \in Responses : CatalogFetchOk(k, r)
    \/ \E k \in 1..Len(calls) : FetchFail(k)

SpecSearch == InitCrud /\ [][NextSearch]_vars

\* The mounted page's add dialog, with the fetches.
NextAdd ==
    \/ \E v \in BOOLEAN : setOpen(v)
    \/ \E f \in {"user_id", "product_id", "name"}, v \in FormValues : setFormData(f, v)
    \/ handleSubmit
    \/ \E k \in 1..Len(calls), result \in AddResults : AddOk(k, result)
    \/ \E k \in 1..Len(calls) : AddFail(k)
    \/ ClickRefresh
    \/ \E k \in 1..Len(calls), r \in Responses : BehaviourFetchOk(k, r)
    \/ \E k \in 1..Len(calls), r \in Responses : CatalogFetchOk(k, r)
    \/ \E k \in 1..Len(calls) : FetchFail(k)

SpecAdd == InitCrud /\ [][NextAdd]_vars

\* The mounted page's UploadDialog with the page's handleUpload, and the
\* fetches.
NextDialog ==
    \/ \E v \in BOOLEAN : setUploadOpen(v)
    \/ \E file \in DialogFiles : handleCatalogChange(file)
    \/ \E file \in DialogFiles : handleBehaviourChange(file)
    \/ handleRemoveCatalog
    \/ handleRemoveBehaviour
    \/ DialogHandleUpload
    \/ \E ok \in BOOLEAN : UploadDone(ok)
    \/ ClickRefresh
    \/ \E k \in 1..Len(calls), r \in Responses : BehaviourFetchOk(k, r)
    \/ \E k \in 1..Len(calls), r \in Responses : CatalogFetchOk(k, r)
    \/ \E k \in 1..Len(calls) : FetchFail(k)

SpecDialog == InitCrud /\ [][NextDialog]_vars

\* The dashboard's recommendations page after its mount effect: the mock
\* envelope shown, the fetch of the stored recommendations in flight.
InitDash ==
    /\ files = <<>>
    /\ UploadIdle
    /\ page = "dashboard"
    /\ CrudIdle
    /\ dashRecommendations = mockRecommendations.recommendations
    /\ dashExplanation = OrElse(mockRecommendations.explanation, DefaultExplanation)
    /\ userId = "U001"
    /\ isGenerating = FALSE
    /\ isLoading = TRUE
    /\ dashCalls = <<"stored">>
    /\ dashToast = DescToast("none", "", <<>>)

NextDash ==
    \/ \E k \in 1..Len(dashCalls), r \in RecsResponses : StoredFetchOk(k, r)
    \/ \E k \in 1..Len(dashCalls) : StoredFetchFail(k)
    \/ \E v \in UserIds : setUserId(v)
    \/ handleGenerateRecommendations
    \/ \E k \in 1..Len(dashCalls), r \in RecsResponses : GenerateOk(k, r)
    \/ \E k \in 1..Len(dashCalls), res \in ErrorResponses : GenerateFail(k, res)

SpecDash == InitDash /\ [][NextDash]_vars

\* The list fetches of the three dashboard pages: whichever page is mounted,
\* its mount fetch and, on the CRUD pages, the Refresh button.
InitFetch == InitCrud \/ InitDash

NextFetch ==
    \/ (page \in {"behaviour", "catalog"} /\ ClickRefresh)
    \/ \E k \in 1..Len(calls), r \in Responses : BehaviourFetchOk(k, r)
    \/ \E k \in 1..Len(calls), r \in Responses : CatalogFetchOk(k, r)
    \/ \E k \in 1..Len(calls) : FetchFail(k)
    \/ \E k \in 1..Len(dashCalls), r \in RecsResponses : StoredFetchOk(k, r)
    \/ \E k \in 1..Len(dashCalls) : StoredFetchFail(k)
    \/ handleGenerateRecommendations
    \/ \E k \in 1..Len(dashCalls), r \in RecsResponses : GenerateOk(k, r)
    \/ \E k \in 1..Len(dashCalls), res \in ErrorResponses : GenerateFail(k, res)

SpecFetch == InitFetch /\ [][NextFetch]_vars

\* =========================================================================
\*                                 CLAIMS
\* =========================================================================

\* ----------------------------------------------------------- upload session

\* C1: every upload session (REAL or MOCK) has delivered exactly one terminal
\* outcome of Success, ServerError, NetworkError, Aborted once its transport has
\* finished, and never more than one (so never Aborted next to another one).
C1_ExactlyOneOutcome ==
    \A sid \in Slots :
        LET s == sessions[sid] IN
        s.mode # "NONE" =>
            /\ Len(s.outcomes) <= 1
            /\ \A n \in 1..Len(s.outcomes) :
                   s.outcomes[n] \in {"Success", "ServerError", "NetworkError", "Aborted"}
            /\ ~InFlight(s) => Len(s.outcomes) = 1

\* a REAL session that was cancelled after a progress tick and is finished
C1_Witness ==
    \E sid \in Slots :
        /\ sessions[sid].mode = "REAL"
        /\ sessions[sid].cancelled
        /\ Len(sessions[sid].ticks) > 0
        /\ ~InFlight(sessions[sid])

\* C2: a REAL session cancelled before any progress tick has exactly the one
\* outcome Aborted, the progress is {overall: 0, perFile: {}}, and as long as it
\* is the page's session no result and no error of it shows (nothing of
\* Success or ServerError is applied later).
C2_CancelBeforeFirstTick ==
    \A sid \in Slots :
        LET s == sessions[sid] IN
        (s.mode = "REAL" /\ s.cancelled /\ s.ticks = <<>>) =>
            /\ s.outcomes = <<"Aborted">>
            /\ ~InFlight(s)
            /\ uploadProgress = ZeroProgress
            /\ recommendations = <<>>
            /\ explanation = ""
            /\ error = ""
            /\ ~isUploading

\* cancel was invoked on a REAL session that had seen no tick, and handlers ran
\* after it
C2_Witness ==
    /\ \E sid \in Slots :
          /\ sessions[sid].mode = "REAL"
          /\ sessions[sid].cancelled
          /\ sessions[sid].ticks = <<>>
    /\ lastEvent = "toggleMock"

\* C3 (as claimed): whenever cancel is invoked while a session of either mode is
\* in flight, that session ends Aborted (so without Success) and the progress
\* is reset to zero.
C3_CancelEndsAnySession ==
    \A sid \in Slots :
        LET s == sessions[sid] IN
        s.cancelled =>
            /\ s.outcomes = <<"Aborted">>
            /\ lastEvent = "cancel" => uploadProgress = ZeroProgress

\* C4: handleCancelUpload invoked when a terminal outcome has been delivered and
\* nothing is in flight changes none of isUploading, uploadProgress,
\* recommendations, explanation, error and the staged files.
C4_CancelAfterOutcomeIsNoOp ==
    [][ ( /\ lastEvent' = "cancel"
          /\ InFlightSessions = {}
          /\ \E sid \in Slots : Len(sessions[sid].outcomes) > 0 )
        => UNCHANGED <<isUploading, uploadProgress, recommendations, explanation,
                       error, files, abortController, sessions>> ]_vars

\* cancel was the last handler to run, on a session that had ended in Success
\* with its progress standing at 100
C4_Witness ==
    /\ lastEvent = "cancel"
    /\ \E sid \in Slots : sessions[sid].outcomes = <<"Success">>
    /\ uploadProgress.overall = 100

\* C10: at most one upload session is in flight, and while one is, isUploading
\* is true, which disables the Upload button (canUpload is false): no second
\* handleUpload runs, and nothing is kept to run later.
C10_OneSessionInFlight ==
    /\ Cardinality(InFlightSessions) <= 1
    /\ InFlightSessions # {} => (isUploading /\ ~canUpload)

\* a session is in flight with files staged, so only the disabled button
\* stands between the user and a second handleUpload
C10_Witness ==
    /\ InFlightSessions # {}
    /\ Len(files) > 0
    /\ ~ENABLED ClickUpload

\* -------------------------------------------------------------- CRUD pages

\* the identity a call addresses its record by (_id / product_id)
KeyOf(row) == IF page = "behaviour" THEN row._id ELSE row.product_id

\* the editable cells of a row
CellsOf(row) == IF page = "behaviour" THEN row.product_id ELSE row.name

C6_FailedMutationStillApplied ==
    [][ \A k \in 1..Len(calls), i \in 1..Len(List) :
          LET c == calls[k] IN
          (/\ KeyOf(List[i]) = c.key
           /\ \/ BehaviourUpdateDone(k, FALSE) \/ CatalogUpdateDone(k, FALSE)
              \/ BehaviourDeleteDone(k, FALSE) \/ CatalogDeleteDone(k, FALSE))
          => /\ toast'.kind = "error"
             /\ c.op = "update" =>
                   /\ \E j \in 1..Len(List') : KeyOf(List'[j]) = c.key
                   /\ \A j \in 1..Len(List') :
                         KeyOf(List'[j]) = c.key => CellsOf(List'[j]) = CellsOf(c.data)
             /\ c.op = "delete" =>
                   \A j \in 1..Len(List') : KeyOf(List'[j]) # c.key ]_vars

\* C7: a failed create leaves the local list as it is and reaches the dialog,
\* which keeps its open state and its form data and puts isAdding back to
\* false; the error is shown.
C7_FailedCreateKeepsForm ==
    [][ \A k \in 1..Len(calls) :
          (calls[k].op = "add" /\ calls' = Without(calls, k) /\ toast'.kind = "error")
          => /\ behaviour' = behaviour
             /\ catalog' = catalog
             /\ open' = open
             /\ formData' = formData
             /\ isAdding' = FALSE ]_vars

\* a create has failed with the dialog open: the form still holds what was
\* submitted and can be submitted again
C7_Witness ==
    /\ toast.title \in {"Failed to add behavior", "Failed to add product"}
    /\ open
    /\ FormComplete
    /\ ~isAdding
    /\ \A k \in 1..Len(calls) : calls[k].op # "add"

\* C8 (as claimed): a successful update leaves, at the edited position, the
\* caller's fields with the identity of the record that was there; a successful
\* delete removes exactly the row at that position and nothing else.
C8_SuccessfulMutationExact ==
    [][ \A k \in 1..Len(calls) :
          LET c == calls[k]
              prior == At(page, List, c.rowIndex)
          IN
          /\ BehaviourUpdateDone(k, TRUE) =>
                List' = SetAt(page, List, c.rowIndex,
                              [c.data EXCEPT !._id = prior._id,
                                             !.behavior_id = prior.behavior_id])
          /\ CatalogUpdateDone(k, TRUE) =>
                List' = SetAt(page, List, c.rowIndex,
                              [c.data EXCEPT !.product_id = prior.product_id])
          /\ (BehaviourDeleteDone(k, TRUE) \/ CatalogDeleteDone(k, TRUE)) =>
                /\ Len(List') = Len(List) - 1
                /\ List' = Without(List, c.rowIndex + 1) ]_vars

\* the list effect of a settled update or delete call on the mounted page
Apply(prev, c, ok) ==
    IF page = "behaviour" THEN BehaviourApply(prev, c) ELSE CatalogApply(prev, c, ok)

\* C9 (as claimed): two update / delete calls in flight for different rows
\* leave the same list whichever settles first.
C9_OrderIndependent ==
    \A k1, k2 \in Mutations, ok1, ok2 \in BOOLEAN :
        LET c1 == calls[k1]
            c2 == calls[k2]
        IN  (c1.rowIndex # c2.rowIndex /\ c1.key # c2.key) =>
                Apply(Apply(List, c1, ok1), c2, ok2) = Apply(Apply(List, c2, ok2), c1, ok1)

\* ------------------------------------------------------- upload progress

\* the ids of the files a session uploads (the files of its closure)
SessionFileIds(s) == {s.files[k].id : k \in 1..Len(s.files)}

\* C11: the overall values one session passes to setUploadProgress never
\* decrease, and once the session has delivered its terminal outcome it
\* delivers no further value and uploadProgress stays as it is until the next
\* session starts.
C11_ProgressOrdered ==
    /\ [](\A sid \in Slots :
            LET t == sessions[sid].ticks IN
            \A a, b \in 1..Len(t) : a <= b => t[a] <= t[b])
    /\ [][ \A sid \in Slots :
             (/\ Len(sessions[sid].outcomes) > 0
              /\ sessions'[sid].outcomes = sessions[sid].outcomes)
             => /\ sessions'[sid].ticks = sessions[sid].ticks
                /\ uploadProgress' = uploadProgress ]_vars

\* a REAL session that delivered two different values and then its outcome,
\* with a handler run after that
C11_Witness ==
    /\ \E sid \in Slots :
          LET s == sessions[sid] IN
          /\ s.mode = "REAL"
          /\ Len(s.ticks) = 2
          /\ s.ticks[1] < s.ticks[2]
          /\ s.outcomes = <<"Success">>
    /\ lastEvent = "cancel"

\* C12 (as claimed): at the step that delivers Success the overall progress is
\* 100, at the step that delivers Aborted it is 0, in either mode and whatever
\* progress events came before.
C12_HundredOnSuccess ==
    [][ \A sid \in Slots :
          (sessions[sid].outcomes = <<>> /\ sessions'[sid].mode = sessions[sid].mode) =>
             /\ sessions'[sid].outcomes = <<"Success">> => uploadProgress'.overall = 100
             /\ sessions'[sid].outcomes = <<"Aborted">> => uploadProgress'.overall = 0 ]_vars

\* C13: the overall progress is always an integer from 0 to 100, and every
\* progress value a session delivers is stored as overall and under exactly the
\* ids of the session's files, each with that same value.
C13_ProgressShape ==
    /\ [](uploadProgress.overall \in 0..100)
    /\ [][ \A sid \in Slots :
             (/\ sessions'[sid].mode = sessions[sid].mode
              /\ Len(sessions'[sid].ticks) = Len(sessions[sid].ticks) + 1)
             => LET s == sessions'[sid]
                    v == s.ticks[Len(s.ticks)]
                IN  /\ uploadProgress'.overall = v
                    /\ DOMAIN uploadProgress'.perFile = SessionFileIds(s)
                    /\ \A id \in SessionFileIds(s) : uploadProgress'.perFile[id] = v ]_vars

\* a progress event of a REAL session uploading two files of the same name has
\* just stored 67 for both
C13_Witness ==
    /\ lastEvent = "progress"
    /\ uploadProgress.overall = 67
    /\ \E sid \in Slots :
          /\ sessions[sid].mode = "REAL"
          /\ Cardinality(SessionFileIds(sessions[sid])) = 2
          /\ DOMAIN uploadProgress.perFile = SessionFileIds(sessions[sid])

\* 0, 10, ..., 100
MockTicks == [k \in 1..11 |-> 10 * (k - 1)]

\* C15: a MOCK session delivers 0, 10, ..., 100 in this order, each value to
\* every file of the session, and ends right after the 100 with Success:
\* recommendations and explanation are mockRecommendations' and isUploading is
\* false.
C15_MockRun ==
    \A sid \in Slots :
        LET s == sessions[sid]
            n == Len(s.ticks)
        IN  s.mode = "MOCK" =>
              /\ n <= 11
              /\ s.ticks = SubSeq(MockTicks, 1, n)
              /\ n > 0 => uploadProgress = [overall |-> s.ticks[n],
                                            perFile |-> [id \in SessionFileIds(s) |-> s.ticks[n]]]
              /\ InFlight(s) => (n < 11 /\ s.outcomes = <<>> /\ isUploading)
              /\ ~InFlight(s) =>
                    /\ n = 11
                    /\ s.outcomes = <<"Success">>
                    /\ recommendations = mockRecommendations.recommendations
                    /\ explanation = mockRecommendations.explanation
                    /\ ~isUploading

\* a MOCK session of two files has run to its end
C15_Witness ==
    \E sid \in Slots :
        /\ sessions[sid].mode = "MOCK"
        /\ Len(sessions[sid].files) = 2
        /\ sessions[sid].ticks = MockTicks
        /\ sessions[sid].outcomes = <<"Success">>
        /\ uploadProgress.overall = 100

\* ---------------------------------------------------------------------------
\* C14: uploadProgress is reset to { overall: 0, perFile: {} } when a session
\* starts, a step that changes it is the start of a session or happens while a
\* session is in flight, and the stager's handlers (select, confirm or cancel
\* the large files, remove) and the mock switch leave it as it was.
StagerEvents == {"select", "confirmLarge", "cancelLarge", "remove", "toggleMock"}

C14_ProgressFrame ==
    [][ /\ lastEvent' = "upload" => uploadProgress' = ZeroProgress
        /\ uploadProgress' # uploadProgress =>
                lastEvent' = "upload" \/ InFlightSessions # {}
        /\ lastEvent' \in StagerEvents => uploadProgress' = uploadProgress ]_vars

\* a file was removed after an upload that left the progress at 100, and the
\* progress is still there
C14_Witness ==
    /\ lastEvent = "remove"
    /\ files = <<>>
    /\ InFlightSessions = {}
    /\ uploadProgress.overall = 100
    /\ uploadProgress.perFile # <<>>

\* ---------------------------------------------------------------------------
\* The stager's contract, in its own words: what a file passed to stage is,
\* and where it went.
\* the declared media type is text/csv or the name ends in .csv whatever the case
CsvByTypeOrName(f) ==
    \/ f.type = "text/csv"
    \/ /\ Len(f.name) >= 4
       /\ LET ext == SubSeq(f.name, Len(f.name) - 3, Len(f.name)) IN
            /\ ext[1] = "."
            /\ ext[2] \in {"c", "C"}
            /\ ext[3] \in {"s", "S"}
            /\ ext[4] \in {"v", "V"}

\* f is among the staged files fs from position from on
StagedFrom(f, fs, from) ==
    \E j \in from..Len(fs) : fs[j].name = f.name /\ fs[j].size = f.size

\* f is among the pending files ps
PendingIn(f, ps) == \E j \in 1..Len(ps) : ps[j] = f

\* the files the selections are made of
SelectedSamples == UNION {{sel[k] : k \in 1..Len(sel)} : sel \in Selections}

\* C16: a file that is a CSV neither by type nor by name is never staged nor
\* pending; a selection holding one sets the error "Only CSV files are allowed"
\* and every CSV of that selection is staged by the same step or pending after
\* it.
C16_OnlyCsvAccepted ==
    /\ [](\A f \in SelectedSamples :
            ~CsvByTypeOrName(f) =>
                ~StagedFrom(f, files, 1) /\ ~PendingIn(f, pendingLargeFiles))
    /\ [][\A sel \in Selections :
            handleFilesSelected(sel) =>
                /\ (\E k \in 1..Len(sel) : ~CsvByTypeOrName(sel[k])) =>
                        error' = "Only CSV files are allowed"
                /\ \A k \in 1..Len(sel) :
                        CsvByTypeOrName(sel[k]) =>
                            \/ StagedFrom(sel[k], files', Len(files) + 1)
                            \/ PendingIn(sel[k], pendingLargeFiles')]_vars

\* a selection with a file that is no CSV, a CSV by its upper-case name and a
\* large CSV: the error is set, the second is staged, the third is pending
C16_Witness ==
    /\ lastEvent = "select"
    /\ error = "Only CSV files are allowed"
    /\ StagedFrom(AtLimitByName, files, 1)
    /\ pendingLargeFiles = <<LargeByType>>
    /\ ~StagedFrom(LargeNotCsv, files, 1)

\* a CSV of at most 5 MB
SmallCsv(f) == CsvByTypeOrName(f) /\ f.size <= 5 * 1024 * 1024

\* a CSV of more than 5 MB
LargeCsv(f) == CsvByTypeOrName(f) /\ f.size > 5 * 1024 * 1024

\* fs continues prev with the files added, in their order, name and size kept
AppendedTo(prev, added, fs) ==
    /\ Len(fs) = Len(prev) + Len(added)
    /\ SubSeq(fs, 1, Len(prev)) = prev
    /\ \A k \in 1..Len(added) :
            /\ fs[Len(prev) + k].name = added[k].name
            /\ fs[Len(prev) + k].size = added[k].size

\* C17: the step that handles a selection appends to the staged files every
\* CSV of the selection whose size is at most 5 MB (5 MB itself included),
\* whatever else the selection holds, large or rejected.
C17_SmallStagedAtOnce ==
    [][\A sel \in Selections :
            handleFilesSelected(sel) =>
                AppendedTo(files, SelectSeq(sel, SmallCsv), files')]_vars

\* a CSV of exactly 5 MB staged by the step that left a larger one waiting for
\* confirmation and rejected a third file
C17_Witness ==
    /\ lastEvent = "select"
    /\ showLargeFileWarning
    /\ Len(pendingLargeFiles) = 1
    /\ Len(files) > 0
    /\ files[Len(files)].name = AtLimitByName.name
    /\ files[Len(files)].size = 5 * 1024 * 1024
    /\ error # ""

\* C18: the step that handles a selection leaves every CSV of it larger than
\* 5 MB among the pending files and not among the files it staged; a staged
\* file larger than 5 MB that was not staged before is put there by the
\* confirmation only; cancelling empties the pending files and leaves the
\* staged files as they were.
C18_LargeWaitsForConfirm ==
    [][ /\ \A sel \in Selections :
              handleFilesSelected(sel) =>
                  \A k \in 1..Len(sel) :
                      LargeCsv(sel[k]) =>
                          /\ PendingIn(sel[k], pendingLargeFiles')
                          /\ ~StagedFrom(sel[k], files', Len(files) + 1)
        /\ \A j \in 1..Len(files') :
              files'[j].size > 5 * 1024 * 1024 =>
                  \/ \E i \in 1..Len(files) : files[i] = files'[j]
                  \/ lastEvent' = "confirmLarge"
        /\ lastEvent' = "cancelLarge" =>
              pendingLargeFiles' = <<>> /\ files' = files ]_vars

\* large files were pending beside a staged file and the dialog was cancelled:
\* nothing is pending, the staged file is alone
C18_Witness ==
    /\ lastEvent = "cancelLarge"
    /\ pendingLargeFiles = <<>>
    /\ ~showLargeFileWarning
    /\ Len(files) = 1
    /\ files[1].size <= 5 * 1024 * 1024

\* p, pending before the step, is among the files the step staged
NewlyStaged(p) ==
    \E j \in 1..Len(files') :
        /\ \A i \in 1..Len(files) : files[i] # files'[j]
        /\ files'[j].name = p.name
        /\ files'[j].size = p.size

\* C19: the confirmation appends all the pending files to the staged files, in
\* their order, after the files staged before, name and size kept, and leaves
\* nothing pending; and no step stages some of the pending files without
\* staging all of them.
C19_ConfirmAllOrNothing ==
    [][ /\ lastEvent' = "confirmLarge" =>
              /\ AppendedTo(files, pendingLargeFiles, files')
              /\ pendingLargeFiles' = <<>>
        /\ (\E k \in 1..Len(pendingLargeFiles) : NewlyStaged(pendingLargeFiles[k])) =>
              (\A k \in 1..Len(pendingLargeFiles) : NewlyStaged(pendingLargeFiles[k])) ]_vars

\* two pending files confirmed: both staged, in the order they were pending
C19_Witness ==
    /\ lastEvent = "confirmLarge"
    /\ pendingLargeFiles = <<>>
    /\ Len(files) = 2
    /\ files[1].name = LargeByName.name /\ files[1].size = LargeByName.size
    /\ files[2].name = LargeByType.name /\ files[2].size = LargeByType.size

\* fs without its p-th element
DropAt(fs, p) == SubSeq(fs, 1, p - 1) \o SubSeq(fs, p + 1, Len(fs))

\* C20: removing an id that a staged file has takes out that one file and
\* keeps the others in their order; removing an id no staged file has changes
\* nothing; so removing the same id a second time changes nothing any more.
C20_RemoveExactlyOne ==
    /\ [](\A id \in RemovableIds :
            RemoveFile(RemoveFile(files, id), id) = RemoveFile(files, id))
    /\ [][\A id \in RemovableIds :
            handleRemoveFile(id) =>
                IF \E p \in 1..Len(files) : files[p].id = id
                  THEN \E p \in 1..Len(files) :
                          files[p].id = id /\ files' = DropAt(files, p)
                  ELSE files' = files]_vars

\* of two staged files of the same name the first was removed: the second is
\* left
C20_Witness ==
    /\ lastEvent = "remove"
    /\ Len(files) = 1
    /\ files[1].name = SmallByType.name
    /\ files[1].id = <<SmallByType.name, 2>>

\* C21: the ids of the staged files are pairwise different, for files of the
\* same name and for files staged by the same handler run as well.
C21_IdsDistinct ==
    \A i, j \in 1..Len(files) : files[i].id = files[j].id => i = j

\* two files of one name staged by one selection
C21_Witness ==
    /\ lastEvent = "select"
    /\ Len(files) = 2
    /\ files[1].name = files[2].name
    /\ files[1].id # files[2].id
    /\ pendingLargeFiles = <<>>
    /\ ~showLargeFileWarning
    /\ error = ""
    /\ files[1].id[2] = 1

\* C22: once a session has its outcome, none of the files it uploaded is
\* staged any more.
C22_FilesGoneAfterOutcome ==
    \A sid \in Slots :
        sessions[sid].outcomes # <<>> =>
            \A k \in 1..Len(sessions[sid].files) :
                \A j \in 1..Len(files) : files[j].id # sessions[sid].files[k].id

\* the outcome a session delivered last
LastOutcome(s) == s.outcomes[Len(s.outcomes)]

\* C23: a request that completes with a status outside 200..299 ends as
\* ServerError, and one that completes with any status in 200..299 and a
\* parseable envelope with recommendations ends as Success.
C23_ServerErrorIffNon2xx ==
    [][\A sid \in Slots : \A status \in Statuses : \A body \in Bodies :
            XhrLoad(sid, status, body) =>
                /\ status \notin 200..299 => LastOutcome(sessions'[sid]) = "ServerError"
                /\ (status \in 200..299 /\ body.json /\ Len(body.recommendations) > 0) =>
                        /\ LastOutcome(sessions'[sid]) = "Success"
                        /\ recommendations' = body.recommendations
                        /\ error' = ""]_vars

\* C24: when a request completes with a status outside 200..299, the error
\* shown is the body's message field if the body parses and has one, and the
\* status line of the response if the body does not parse.
C24_ServerErrorMessage ==
    [][\A sid \in Slots : \A status \in Statuses : \A body \in Bodies :
            (XhrLoad(sid, status, body) /\ status \notin 200..299) =>
                /\ (body.json /\ body.message # "") => error' = body.message
                /\ ~body.json => error' = StatusLine(status)]_vars

\* C25: a list fetch that resolves with a response holding no list (no array
\* under the page's key nor under data, and not an array itself) leaves the
\* page's list empty.
C25_NoListGivesEmpty ==
    [][\A k \in 1..Len(calls) : \A r \in Responses :
            (r.shape = "other" /\ (BehaviourFetchOk(k, r) \/ CatalogFetchOk(k, r))) =>
                List' = <<>>]_vars

\* C26: on the recommendations page a response carrying the list L under
\* recommendations, as a bare array, or under data leaves the page showing L,
\* whichever of the three shapes it has.
C26_ShapeIndependent ==
    [][\A k \in 1..Len(dashCalls) : \A r \in RecsResponses :
            (r.shape \in {"keyed", "array", "data"}
                /\ (StoredFetchOk(k, r) \/ GenerateOk(k, r))) =>
                dashRecommendations' = r.items]_vars

\* C27: after a response with a top-level explanation the page shows that
\* explanation; after a response without one (a bare array among them) it
\* shows the explanation it showed before.
C27_ExplanationKeptOrTaken ==
    [][\A k \in 1..Len(dashCalls) : \A r \in RecsResponses :
            (StoredFetchOk(k, r) \/ GenerateOk(k, r)) =>
                dashExplanation' = IF r.explanation # "" THEN r.explanation
                                                        ELSE dashExplanation]_vars

\* C28: when a fetch resolves while no other call is in flight, the page's
\* list is from then on the item list of the response (the empty list for a
\* response that holds none), whatever the list was before.
C28_RefreshReplaces ==
    [][\A r \in Responses :
            (Len(calls) = 1 /\ (BehaviourFetchOk(1, r) \/ CatalogFetchOk(1, r))) =>
                List' = r.items]_vars

\* C29: no invocation of an update or delete handler by the table, of a
\* refresh, generate or upload ends in a rejection that nothing catches.
C29_NothingUnhandled == unhandled = "none"

\* the text the contract gives a non-2xx response: the first field present of
\* detail[0].msg, detail, message, else "<status> <statusText>"
FirstPresentOrStatusLine(res) ==
    IF res.json /\ res.detail.kind = "array" /\ res.detail.msg # "" THEN <<res.detail.msg>>
    ELSE IF res.json /\ res.detail.kind # "absent" THEN <<DetailText(res.detail)>>
    ELSE IF res.json /\ res.message # "" THEN <<res.message>>
    ELSE <<StatusLine(res.status)>>

\* C30: the error text shown for a non-2xx response is the first present of
\* detail[0].msg, detail and message, and "<status> <statusText>" when the body
\* has none of them or is not JSON.
C30_ErrorTextPriority ==
    [][\A k \in 1..Len(dashCalls) : \A res \in ErrorResponses :
            GenerateFail(k, res) =>
                dashToast'.description = FirstPresentOrStatusLine(res)]_vars

\* the inline message of a failed upload is on screen
UploadFailureShown ==
    /\ ~isUploading
    /\ error \in {"Network error. Please check your connection.", "Server error occurred."}

\* C31: the inline message of a failed upload stays as it is until the next
\* upload begins: no step other than the start of an upload changes it.
C31_FailureMessageStays ==
    [][(UploadFailureShown /\ lastEvent' # "upload") => error' = error]_vars

\* the names of a list of files, in order
Names(fs) == [k \in 1..Len(fs) |-> fs[k].name]

\* the session is the scenario's: a.csv and b.csv, ticks 0, 25, 60, 100
ScenarioSession(s) ==
    /\ s.mode = "REAL"
    /\ Names(s.files) = <<ACsv.name, BCsv.name>>
    /\ s.ticks = <<0, 25, 60, 100>>

\* C32: selecting a.csv (1 KB) and b.csv (6 MB) stages a.csv and leaves b.csv
\* pending; confirming then gives the staged list [a.csv, b.csv]; a request
\* for them that reported the ticks 0, 25, 60, 100 and completes with status
\* 200 and one recommendation of score 0.82 with an explanation ends as
\* Success with exactly that recommendation, the explanation, no error and
\* isUploading false.
C32_EndToEnd ==
    [][/\ (files = <<>> /\ handleFilesSelected(<<ACsv, BCsv>>)) =>
            /\ Names(files') = <<ACsv.name>>
            /\ Names(pendingLargeFiles') = <<BCsv.name>>
            /\ showLargeFileWarning'
       /\ (Names(files) = <<ACsv.name>> /\ Names(pendingLargeFiles) = <<BCsv.name>>
                /\ handleConfirmLargeFiles) =>
            /\ Names(files') = <<ACsv.name, BCsv.name>>
            /\ pendingLargeFiles' = <<>>
       /\ \A sid \in Slots :
            (ScenarioSession(sessions[sid]) /\ XhrLoad(sid, 200, ScenarioBody)) =>
                /\ sessions'[sid].outcomes = <<"Success">>
                /\ Len(recommendations') = 1
                /\ recommendations'[1].overall_score = 82
                /\ explanation' = "bought together"
                /\ error' = ""
                /\ ~isUploading']_vars

C32_Witness ==
    \E sid \in Slots :
        /\ ScenarioSession(sessions[sid])
        /\ sessions[sid].outcomes = <<"Success">>
        /\ Len(sessions[sid].files) = 2
        /\ sessions[sid].files[2].size > MAX_FILE_SIZE
        /\ Len(recommendations) = 1
        /\ lastEvent = "load"

\* the call a handler has just sent, if the step sent one
Sent(before, after) == IF Len(after) > Len(before) THEN {after[Len(after)]} ELSE {}

\* C33: whatever is typed into the search box, the record an update or a
\* delete is sent for is the record shown in the row the user acted on.
C33_ActsOnDisplayedRow ==
    [][/\ \A i \in 0..(MaxRows - 1) :
            (Rendered(i) /\ TableHandleDelete(i)) =>
                \A c \in Sent(calls, calls') :
                    (c.op = "delete" /\ c.rowIndex = i) => c.item = filteredData[i + 1]
       /\ (Rendered(editingRow) /\ saveEditing) =>
                \A c \in Sent(calls, calls') :
                    (c.op = "update" /\ c.rowIndex = editingRow) =>
                        KeyOf(c.item) = KeyOf(filteredData[editingRow + 1])]_vars

\* the list fetches in flight
FetchesInFlight == {k \in 1..Len(calls) : calls[k].op = "fetch"}

\* C34: isRefreshing is true exactly while a list fetch is in flight, however
\* the fetch was started (on mount, by the Refresh button, after a dialog
\* upload).
C34_RefreshingIffFetching == isRefreshing <=> FetchesInFlight # {}

\* C35: the large-file warning is open exactly when files are waiting for
\* confirmation.
C35_WarningIffPending == showLargeFileWarning <=> pendingLargeFiles # <<>>

\* C36: isUploading is true exactly while an upload session, REAL or MOCK, is
\* in flight; the abort handle is set only while a REAL session is in flight
\* and then is that session's; with no session in flight (after load, error,
\* abort or the end of the mock loop) isUploading is false and the handle null.
C36_FlagsConsistent ==
    /\ isUploading <=> (\E sid \in Slots : InFlight(sessions[sid]))
    /\ abortController # 0 =>
            /\ sessions[abortController].mode = "REAL"
            /\ InFlight(sessions[abortController])
    /\ \A sid \in Slots :
            (sessions[sid].mode = "REAL" /\ InFlight(sessions[sid])) => abortController = sid

C36_Witness ==
    /\ ~isUploading
    /\ abortController = 0
    /\ lastEvent = "error"
    /\ \E sid \in Slots :
            /\ sessions[sid].mode = "REAL"
            /\ sessions[sid].outcomes = <<"NetworkError">>
            /\ sessions[sid].ticks # <<>>

OkBefore(log, e, n) ==
    \E i \in 1..(n - 2) : log[i] = e /\ log[i + 1] = "ok"

\* the order of one dialog upload, as its log shows it
UploadInOrder(u) ==
    \A n \in 1..Len(u.log) :
        /\ (u.log[n] = "uploadUserBehavior" /\ u.catalogFile # NoFile) =>
                OkBefore(u.log, "uploadProducts", n)
        /\ u.log[n] = "fetch" =>
                /\ u.catalogFile # NoFile => OkBefore(u.log, "uploadProducts", n + 1)
                /\ u.behaviourFile # NoFile => OkBefore(u.log, "uploadUserBehavior", n + 1)
        /\ u.log[n] = "failed" => n = Len(u.log)

\* C38: in a dialog upload the behaviour file is sent only after the catalog
\* file's upload succeeded, the list is fetched again only after every
\* selected upload succeeded, and when an upload fails nothing is sent after
\* it, no fetch is started and the list stays as it is.
C38_UploadsInOrder ==
    [][/\ UploadInOrder(upload')
       /\ (upload'.log # upload.log /\ upload'.log[Len(upload'.log)] = "failed") =>
                /\ behaviour' = behaviour
                /\ catalog' = catalog
                /\ calls' = calls
                /\ upload'.at = "done"]_vars

C38_Witness ==
    /\ upload.catalogFile # NoFile
    /\ upload.behaviourFile # NoFile
    /\ upload.log = <<"uploadProducts", "ok", "uploadUserBehavior", "ok", "fetch", "fetched">>
    /\ ~dialogIsUploading

\* C39: a request that completes with status 200 and a body without
\* recommendations (none, or an empty list) leaves the recommendation list
\* empty and shows "No recommendations found for uploaded data."; with a body
\* that is not JSON it shows "Unexpected server response."; isUploading is
\* false afterwards in both cases.
C39_EmptyOrUnparseable200 ==
    [][\A sid \in Slots : \A body \in Bodies :
            XhrLoad(sid, 200, body) =>
                /\ (body.json /\ body.recommendations = <<>>) =>
                        /\ recommendations' = <<>>
                        /\ error' = "No recommendations found for uploaded data."
                        /\ ~isUploading'
                /\ ~body.json =>
                        /\ error' = "Unexpected server response."
                        /\ ~isUploading']_vars

C39_Witness ==
    /\ lastEvent = "load"
    /\ error = "No recommendations found for uploaded data."
    /\ recommendations = <<>>
    /\ ~isUploading
    /\ \E sid \in Slots : sessions[sid].outcomes = <<"ServerError">>

\* C40: a list fetch that fails leaves the page's list and explanation as
\* they were, and shows an error notification only if the fetch was started
\* with showToast (the stored-recommendations fetch never is).
C40_FailedFetchKeepsList ==
    [][/\ \A k \in 1..Len(calls) :
            FetchFail(k) =>
                /\ behaviour' = behaviour
                /\ catalog' = catalog
                /\ IF calls[k].showToast THEN toast'.kind = "error" ELSE toast' = toast
       /\ \A k \in 1..Len(dashCalls) :
            StoredFetchFail(k) =>
                /\ dashRecommendations' = dashRecommendations
                /\ dashExplanation' = dashExplanation
                /\ dashToast' = dashToast]_vars

C40_Witness ==
    /\ page \in {"behaviour", "catalog"}
    /\ toast.kind = "error"
    /\ toast.title \in {"Failed to fetch behaviors", "Failed to fetch products"}
    /\ Len(List) = 3
    /\ ~isRefreshing

====
